---- MODULE Spec2Model ----
(***************************************************************************)
(* A model of the snippet reduction pipeline of contract_git_search        *)
(* (src/ai-script.py): the sanitizer, the boundary compressor, the         *)
(* similarity comparator, the deduplicator and the GitHub fetch with the   *)
(* batch loop that drives them.                                            *)
(*                                                                         *)
(* A Python str is modelled as a sequence of one-character strings, so     *)
(* that slicing, searching and the regular expressions of the source can   *)
(* be computed position by position.                                       *)
(***************************************************************************)
EXTENDS Integers, Sequences, FiniteSets, TLC

VARIABLES
    san_pc,      \* sanitizer harness: "off", "input", "once", "twice", "other",
                 \* "again"
    san_text,    \* the snippet handed to sanitize_hex_addresses
    san_target,  \* the target identifier
    san_out1,    \* sanitize_hex_addresses(text, target)
    san_out2,    \* sanitize_hex_addresses(out1, target)
    san_other_text,    \* the snippet of a call made beforehand
    san_other_target,  \* and its target identifier
    san_again,   \* sanitize_hex_addresses(text, target), called after it
    san_cache,   \* address_cache as the call that returned last left it
    cmp_pc,          \* compressor harness: "off", "input", "done"
    cmp_snippet,     \* the snippet handed to compress_snippet
    cmp_marker,      \* its target_marker argument
    cmp_max_length,  \* its max_length argument
    cmp_out,         \* compress_snippet(snippet, target_marker, max_length)
    sim_pc,          \* comparator harness: "off", "input", "done"
    sim_a,           \* snippet_a
    sim_b,           \* snippet_b
    sim_threshold,   \* threshold, in hundredths
    sim_ab,          \* are_similar(a, b, threshold)
    sim_ba,          \* are_similar(b, a, threshold)
    ded_pc,          \* deduplicator harness: "off", "input", "done"
    ded_snippets,    \* the list handed to deduplicate_snippets
    ded_min_length,  \* its min_length argument
    ded_unique,      \* the list it returns
    ded_scored,      \* the snippets it scored, each with its score
    ded_again,       \* what it returns for the list it returned
    p_pc,            \* batch loop: "off", "next", "fetching", "cut", "analyse",
                     \* "update", "finished", "raised"
    records,         \* the addresses of the records of the batch
    p_index,         \* the number of the record being processed
    address,         \* contract_address of that record
    service,         \* the pages the search service holds for the address
    current_retry,   \* search_contract: failed attempts so far
    rate_limits,     \* rate-limited responses of this search so far
    requests,        \* the requests this search has issued
    last_response,   \* the kind of the response to the last request
    last_answer,     \* its status code and X-RateLimit-Remaining header
    last_sleep,      \* the duration of the last time.sleep of the search
    all_repos,       \* search_contract: all_repos, in insertion order
    all_snippets,    \* search_contract: all_snippets
    repos_data,      \* search_result["repos_data"]
    found_snippets,  \* search_result["snippets"]
    top_snippets,    \* process_contracts: top_snippets
    prompt_snippets, \* get_ai_metadata: processed_snippets, sent to the analysis
    prompt_repos,    \* get_ai_metadata: sorted_repos, sent to the analysis
    ai_metadata,     \* what get_ai_metadata returned
    stored,          \* the record store: the fields written to each record
    stages,          \* the stages run so far for the current record
    c_pc,            \* Script.py: "off", "next", "searching", "update", "finished"
    c_records,       \* the addresses of the records of the batch
    c_index,         \* the number of records taken up so far
    c_retry,         \* current_retry of its search_contract
    c_rate_limits,   \* how many rate-limited responses the search has met
    c_outcome,       \* what search_contract returned: found and count
    c_body,          \* the fields update_record sent for the record
    c_stored,        \* the records of the table
    c_no_github      \* the calls of save_no_github_contracts

san_vars == <<san_pc, san_text, san_target, san_out1, san_out2, san_other_text,
              san_other_target, san_again, san_cache>>
cmp_vars == <<cmp_pc, cmp_snippet, cmp_marker, cmp_max_length, cmp_out>>

sim_vars == <<sim_pc, sim_a, sim_b, sim_threshold, sim_ab, sim_ba>>
ded_vars == <<ded_pc, ded_snippets, ded_min_length, ded_unique, ded_scored,
              ded_again>>

p_vars == <<p_pc, records, p_index, address, service, current_retry, rate_limits,
            requests, last_response, last_answer,
                   last_sleep, all_repos, all_snippets,
            repos_data, found_snippets, top_snippets, prompt_snippets,
            prompt_repos, ai_metadata,
            stored, stages>>

c_vars == <<c_pc, c_records, c_index, c_retry, c_rate_limits, c_outcome, c_body,
            c_stored, c_no_github>>

vars == <<san_vars, cmp_vars, sim_vars, ded_vars, p_vars, c_vars>>

(***************************************************************************)
(* Characters and strings                                                  *)
(***************************************************************************)

\* n copies of the character c
Rep(c, n) == [i \in 1..n |-> c]

\* the concatenation of a sequence of strings
RECURSIVE Flatten(_)
Flatten(ss) == IF ss = <<>> THEN <<>> ELSE Head(ss) \o Flatten(Tail(ss))

\* F(e), with e computed once (a local name of the source: its right-hand
\* side is evaluated when it is assigned, not at each use)
Let(e, F(_)) == CHOOSE r \in {F(x) : x \in {e}} : TRUE

\* every sequence over S of length lo..hi
SeqsOf(S, lo, hi) == UNION {[1..n -> S] : n \in lo..hi}

UpperLetters == <<"A", "B", "C", "D", "E", "F", "G", "H", "I", "J", "K", "L", "M",
                  "N", "O", "P", "Q", "R", "S", "T", "U", "V", "W", "X", "Y", "Z">>
LowerLetters == <<"a", "b", "c", "d", "e", "f", "g", "h", "i", "j", "k", "l", "m",
                  "n", "o", "p", "q", "r", "s", "t", "u", "v", "w", "x", "y", "z">>
Digits == {"0", "1", "2", "3", "4", "5", "6", "7", "8", "9"}

\* str.lower() on one character
LowerChar(c) ==
    IF \E i \in 1..26 : UpperLetters[i] = c
    THEN LowerLetters[CHOOSE i \in 1..26 : UpperLetters[i] = c]
    ELSE c

\* str.lower()
lower(s) == [i \in 1..Len(s) |-> LowerChar(s[i])]

\* s[i:] starts with p (i is 1-based)
StartsWithAt(s, i, p) ==
    /\ i + Len(p) - 1 <= Len(s)
    /\ \A k \in 1..Len(p) : s[i + k - 1] = p[k]

\* p in s
Contains(s, p) == \E i \in 1..(Len(s) - Len(p) + 1) : StartsWithAt(s, i, p)

(***************************************************************************)
(* sanitize_hex_addresses (src/ai-script.py 48-63)                         *)
(***************************************************************************)

\* [a-fA-F0-9]
HexDigits == Digits \cup {"a", "b", "c", "d", "e", "f", "A", "B", "C", "D", "E", "F"}

\* {40} of the pattern
AddrHexLen == 40
\* addr[:6]
DisplayHead == 6
\* addr[-4:]
DisplayTail == 4

AddrLen == 2 + AddrHexLen

target_SC == <<"t", "a", "r", "g", "e", "t", "_", "S", "C">>
Ellipsis3 == <<".", ".", ".">>

\* re.compile(r'0x[a-fA-F0-9]{40}') matches at position i of text
pattern(text, i) ==
    /\ i + AddrLen - 1 <= Len(text)
    /\ text[i] = "0"
    /\ text[i + 1] = "x"
    /\ \A k \in 2..(AddrLen - 1) : text[i + k] \in HexDigits

\* line 59: the replacement computed for a matched address
replacement(addr, target_address) ==
    IF lower(addr) = lower(target_address)
    THEN target_SC
    ELSE SubSeq(addr, 1, DisplayHead) \o Ellipsis3
             \o SubSeq(addr, Len(addr) - DisplayTail + 1, Len(addr))

\* replacer(match), lines 54-61, with address_cache: the pair <<output, cache>>
replacer(addr, target_address, address_cache) ==
    IF addr \in DOMAIN address_cache
    THEN <<address_cache[addr], address_cache>>
    ELSE LET result == replacement(addr, target_address)
         IN <<result, address_cache @@ (addr :> result)>>

\* the least element of a non-empty set of integers
Min(S) == CHOOSE m \in S : \A n \in S : m <= n
Max(S) == CHOOSE m \in S : \A n \in S : m >= n

\* pattern.sub(replacer, text) from position i on: the text up to the leftmost
\* match is copied, the match is replaced and the scan resumes right after it
RECURSIVE pattern_sub(_, _, _, _)
pattern_sub(text, i, target_address, address_cache) ==
    LET matches == {j \in i..Len(text) : pattern(text, j)}
    IN IF matches = {} THEN SubSeq(text, i, Len(text))
       ELSE LET j == Min(matches)
                r == replacer(SubSeq(text, j, j + AddrLen - 1), target_address,
                              address_cache)
            IN SubSeq(text, i, j - 1) \o r[1]
                   \o pattern_sub(text, j + AddrLen, target_address, r[2])

EmptyCache == [a \in {} |-> <<>>]

sanitize_hex_addresses(text, target_address) ==
    Let(text, LAMBDA t : pattern_sub(t, 1, target_address, EmptyCache))

\* address_cache when pattern.sub returns, for the scan from position i on
RECURSIVE cache_after(_, _, _, _)
cache_after(text, i, target_address, address_cache) ==
    LET found == {j \in i..Len(text) : pattern(text, j)}
    IN IF found = {} THEN address_cache
       ELSE cache_after(text, Min(found) + AddrLen, target_address,
                        replacer(SubSeq(text, Min(found), Min(found) + AddrLen - 1),
                                 target_address, address_cache)[2])

\* line 52, address_cache = {}: the cache a call begins with, whatever the
\* cache of the call before it held when it returned
address_cache_kept(earlier) == earlier
address_cache_at_call(earlier) == EmptyCache

\* a call of sanitize_hex_addresses made after a call that left the cache
\* earlier: <<the string returned, the cache when it returns>>
sanitize_call(text, target_address, earlier) ==
    Let(address_cache_at_call(earlier), LAMBDA address_cache :
        <<pattern_sub(text, 1, target_address, address_cache),
          cache_after(text, 1, target_address, address_cache)>>)

\* some address-shaped token occurs in text
HasAddress(text) == \E i \in 1..Len(text) : pattern(text, i)

(***************************************************************************)
(* Sanitizer inputs: snippets put together from a few pieces               *)
(***************************************************************************)

MaxPieces == 3

AddrLow  == <<"0", "x">> \o Rep("a", AddrHexLen)
AddrUp   == <<"0", "x">> \o Rep("A", AddrHexLen)
AddrZero == <<"0", "x">> \o Rep("b", AddrHexLen - 1) \o <<"0">>
HexRun   == Rep("a", AddrHexLen)

SanPieces == {AddrLow, AddrUp, AddrZero, HexRun, <<"x">>, <<" ">>}
SanTargets == {AddrLow, AddrZero}
SanTexts == {Flatten(ps) : ps \in SeqsOf(SanPieces, 1, MaxPieces)}

\* the snippets of the call made beforehand
SanOtherTexts == {AddrLow, AddrUp \o <<" ">> \o AddrZero, <<"x">>}

SanOff ==
    /\ san_pc = "off"
    /\ san_text = <<>>
    /\ san_target = <<>>
    /\ san_out1 = <<>>
    /\ san_out2 = <<>>
    /\ san_other_text = <<>>
    /\ san_other_target = <<>>
    /\ san_again = <<>>
    /\ san_cache = EmptyCache

SanStart ==
    /\ san_pc = "input"
    /\ san_text \in SanTexts
    /\ san_target \in SanTargets
    /\ san_out1 = <<>>
    /\ san_out2 = <<>>
    /\ san_other_text = <<>>
    /\ san_other_target = <<>>
    /\ san_again = <<>>
    /\ san_cache = EmptyCache

\* the first call
SanitizeOnce ==
    /\ san_pc = "input"
    /\ san_out1' = sanitize_call(san_text, san_target, san_cache)[1]
    /\ san_cache' = sanitize_call(san_text, san_target, san_cache)[2]
    /\ san_pc' = "once"
    /\ UNCHANGED <<san_text, san_target, san_out2, san_other_text,
                   san_other_target, san_again, cmp_vars, sim_vars, ded_vars,
                   p_vars, c_vars>>

\* the call on the first call's output
SanitizeTwice ==
    /\ san_pc = "once"
    /\ san_out2' = sanitize_call(san_out1, san_target, san_cache)[1]
    /\ san_cache' = sanitize_call(san_out1, san_target, san_cache)[2]
    /\ san_pc' = "twice"
    /\ UNCHANGED <<san_text, san_target, san_out1, san_other_text,
                   san_other_target, san_again, cmp_vars, sim_vars, ded_vars,
                   p_vars, c_vars>>

\* a call with another snippet and any target, made before the snippet is
\* sanitized
SanitizeOther ==
    /\ san_pc = "input"
    /\ san_other_text' \in SanOtherTexts
    /\ san_other_target' \in SanTargets
    /\ san_cache' = sanitize_call(san_other_text', san_other_target', san_cache)[2]
    /\ san_pc' = "other"
    /\ UNCHANGED <<san_text, san_target, san_out1, san_out2, san_again, cmp_vars,
                   sim_vars, ded_vars, p_vars, c_vars>>

\* the snippet sanitized after that call
SanitizeAgain ==
    /\ san_pc = "other"
    /\ san_again' = sanitize_call(san_text, san_target, san_cache)[1]
    /\ san_cache' = sanitize_call(san_text, san_target, san_cache)[2]
    /\ san_pc' = "again"
    /\ UNCHANGED <<san_text, san_target, san_out1, san_out2, san_other_text,
                   san_other_target, cmp_vars, sim_vars, ded_vars, p_vars, c_vars>>

(***************************************************************************)
(* compress_snippet (src/ai-script.py 66-123)                              *)
(***************************************************************************)

LF == "\n"
CR == "\r"

\* the m-th smallest element of a set of integers (m from 1)
Nth(S, m) == CHOOSE e \in S : Cardinality({x \in S : x <= e}) = m

\* "\n".join(ls)
RECURSIVE join(_)
join(ls) ==
    IF ls = <<>> THEN <<>>
    ELSE IF Len(ls) = 1 THEN ls[1]
    ELSE ls[1] \o <<LF>> \o join(Tail(ls))

\* str.splitlines(): the lines without their terminators; "\n", "\r" and
\* "\r\n" end a line, and a terminator at the very end opens no further line
splitlines(text) ==
    LET n == Len(text)
        \* the position of the last character of each terminator
        ends == {p \in 1..n :
                    \/ text[p] = LF
                    \/ text[p] = CR /\ ~(p < n /\ text[p + 1] = LF)}
        k == Cardinality(ends)
        \* the position of the first character of the terminator ending at e
        first(e) == IF text[e] = LF /\ e > 1 /\ text[e - 1] = CR THEN e - 1 ELSE e
        from(m) == IF m = 1 THEN 1 ELSE Nth(ends, m - 1) + 1
        closed == [m \in 1..k |-> SubSeq(text, from(m), first(Nth(ends, m)) - 1)]
    IN IF from(k + 1) <= n
       THEN Append(closed, SubSeq(text, from(k + 1), n))
       ELSE closed

Whitespace == {" ", "\t", LF, CR}

\* str.strip()
strip(s) ==
    LET keep == {i \in 1..Len(s) : s[i] \notin Whitespace}
    IN IF keep = {} THEN <<>> ELSE SubSeq(s, Min(keep), Max(keep))

\* str.endswith
EndsWith(s, p) == Len(p) <= Len(s) /\ StartsWithAt(s, Len(s) - Len(p) + 1, p)

\* lines 75-79
boundary_patterns ==
    { <<"f", "u", "n", "c", "t", "i", "o", "n">>,
      <<"c", "o", "n", "t", "r", "a", "c", "t">>,
      <<"l", "i", "b", "r", "a", "r", "y">>,
      <<"i", "n", "t", "e", "r", "f", "a", "c", "e">>,
      <<"c", "o", "n", "s", "t", "r", "u", "c", "t", "o", "r">>,
      <<"m", "o", "d", "i", "f", "i", "e", "r">>,
      <<"e", "v", "e", "n", "t">>,
      <<"}">>, <<"}", ";">>, <<")", ";">> }

\* lines 73-81
is_code_boundary(line) ==
    LET stripped == strip(line)
    IN \E p \in boundary_patterns :
           StartsWithAt(stripped, 1, p) \/ EndsWith(stripped, p)

\* idx - 2 and idx + 3 of find_block_bounds
ContextBefore == 2
ContextAfter == 3

\* lines 83-100; idx, start and end count lines from 0 as the source does, and
\* line number k of the source is lines[k + 1] here
find_block_bounds(lines, idx) ==
    LET n == Len(lines)
        start0 == IF idx - ContextBefore > 0 THEN idx - ContextBefore ELSE 0
        end0 == IF idx + ContextAfter < n THEN idx + ContextAfter ELSE n
        \* lines 89-92: step back until the line above start is a boundary
        start == Max({s \in 0..start0 : s = 0 \/ is_code_boundary(lines[s])})
        \* lines 94-98: step on until the line at end - 1 is a boundary, then
        \* one more
        stops == {e \in end0..(n - 1) : is_code_boundary(lines[e])}
        end == IF stops = {} THEN n ELSE Min(stops) + 1
    IN <<start, end>>

\* line 109 and line 121
EllipsisLine == <<LF, ".", ".", ".">>

\* sum(len(line) + 1) over the lines numbered 0..idx
RECURSIVE total_length(_, _)
total_length(lines, idx) ==
    IF idx < 0 THEN 0
    ELSE Len(lines[idx + 1]) + 1 + total_length(lines, idx - 1)

\* lines 102-109: the marker is on line idx
marker_path(lines, idx, max_length) ==
    LET b == find_block_bounds(lines, idx)
        block == join(SubSeq(lines, b[1] + 1, b[2]))
    IN IF Len(block) <= max_length THEN block
       ELSE SubSeq(block, 1, max_length) \o EllipsisLine

\* lines 111-123
progressive_trimming(snippet, lines, max_length) ==
    LET over == {idx \in 0..(Len(lines) - 1) :
                    total_length(lines, idx) > max_length}
    IN IF over = {} THEN snippet
       ELSE LET idx == Min(over)
                seen == {b \in 0..idx : is_code_boundary(lines[b + 1])}
                last_boundary == IF seen = {} THEN 0 ELSE Max(seen)
                break_idx == IF last_boundary > 0 THEN last_boundary ELSE idx
            IN join(SubSeq(lines, 1, break_idx)) \o EllipsisLine

\* lines 102-123, once the snippet is split into lines
compress_lines(snippet, lines, target_marker, max_length) ==
    LET marked == {idx \in 0..(Len(lines) - 1) :
                      Contains(lines[idx + 1], target_marker)}
    IN IF marked # {}
       THEN marker_path(lines, Min(marked), max_length)
       ELSE progressive_trimming(snippet, lines, max_length)

compress_snippet_marking_empty(snippet, target_marker, max_length) ==
    Let(snippet, LAMBDA s :
        IF s = <<>> THEN <<".", ".", ".">>
        ELSE Let(splitlines(s), LAMBDA lines :
                 compress_lines(s, lines, target_marker, max_length)))
compress_snippet(snippet, target_marker, max_length) ==
    Let(snippet, LAMBDA s :
        IF s = <<>> THEN <<>>
        ELSE Let(splitlines(s), LAMBDA lines :
                 compress_lines(s, lines, target_marker, max_length)))

(***************************************************************************)
(* Compressor inputs                                                       *)
(***************************************************************************)

MaxCmpPieces == 4
CmpMaxLengthA == 5
CmpMaxLengthB == 10

\* the default of max_length, line 66
default_max_length == 400
\* the longest of the snippets of many lines
MaxBlockLines == 15

CmpPieces ==
    { target_SC, <<"}">>, <<"a", "b">>, <<" ">>, <<LF>>, <<CR, LF>> }

\* line number k of a snippet of many lines: a closing brace on lines 7 and
\* 13, the marker on line 10, and otherwise a line that is no boundary and is
\* unlike every other
BlockLine(k) ==
    IF k \in {7, 13} THEN <<"}">>
    ELSE IF k = 10 THEN target_SC
    ELSE <<"v", LowerLetters[k]>>
BlockSnippet(n) == join([k \in 1..n |-> BlockLine(k)])

CmpSnippets ==
    {Flatten(ps) : ps \in SeqsOf(CmpPieces, 0, MaxCmpPieces)}
        \cup {BlockSnippet(n) : n \in 10..MaxBlockLines}
CmpMarkers == {target_SC, <<"a", "b">>}
CmpLengths == {CmpMaxLengthA, CmpMaxLengthB, default_max_length}

CmpOff ==
    /\ cmp_pc = "off"
    /\ cmp_snippet = <<>>
    /\ cmp_marker = <<>>
    /\ cmp_max_length = 0
    /\ cmp_out = <<>>

CmpStart ==
    /\ cmp_pc = "input"
    /\ cmp_snippet \in CmpSnippets
    /\ cmp_marker \in CmpMarkers
    /\ cmp_max_length \in CmpLengths
    /\ cmp_out = <<>>

Compress ==
    /\ cmp_pc = "input"
    /\ cmp_out' = compress_snippet(cmp_snippet, cmp_marker, cmp_max_length)
    /\ cmp_pc' = "done"
    /\ UNCHANGED <<cmp_snippet, cmp_marker, cmp_max_length, san_vars, sim_vars,
                   ded_vars, p_vars, c_vars>>

(***************************************************************************)
(* are_similar (src/ai-script.py 126-140)                                  *)
(***************************************************************************)

\* what str.split() and \s take for whitespace, among the characters used
SpaceChars == {" ", "\t", LF, CR}

BlockOpen == <<"/", "*">>
BlockClose == <<"*", "/">>
LineComment == <<"/", "/">>

\* the position of the "*" closing a block comment opened at i: the regular
\* expression is compiled without DOTALL, so "." stops at a line feed and the
\* closing "*/" has to stand on the line of the "/*"; 0 when there is none
block_close(text, i) ==
    LET closes == {j \in (i + 2)..(Len(text) - 1) :
                      /\ StartsWithAt(text, j, BlockClose)
                      /\ \A k \in (i + 2)..(j - 1) : text[k] # LF}
    IN IF StartsWithAt(text, i, BlockOpen) /\ closes # {} THEN Min(closes) ELSE 0

\* the last position of the match of \/\*.*?\*\/|\/\/.*$ that begins at i, 0
\* when none begins there
comment_end(text, i) ==
    IF block_close(text, i) > 0 THEN block_close(text, i) + 1
    ELSE IF StartsWithAt(text, i, LineComment)
    THEN LET feeds == {j \in (i + 2)..Len(text) : text[j] = LF}
         IN IF feeds = {} THEN Len(text) ELSE Min(feeds) - 1
    ELSE 0

\* line 131: re.sub(..., '', text, flags=re.MULTILINE), from position i on
RECURSIVE remove_comments(_, _)
remove_comments(text, i) ==
    LET found == {j \in i..Len(text) : comment_end(text, j) > 0}
    IN IF found = {} THEN SubSeq(text, i, Len(text))
       ELSE LET j == Min(found)
            IN SubSeq(text, i, j - 1) \o remove_comments(text, comment_end(text, j) + 1)

\* ' '.join(s.split()): the runs of whitespace become one space each, those at
\* the two ends are dropped
collapse_spaces(s) ==
    LET t == strip(s)
        marked == [i \in 1..Len(t) |->
                      <<t[i], i > 1 /\ t[i] \in SpaceChars /\ t[i - 1] \in SpaceChars>>]
        kept == SelectSeq(marked, LAMBDA m : ~m[2])
    IN [i \in 1..Len(kept) |-> IF kept[i][1] \in SpaceChars THEN " " ELSE kept[i][1]]

\* lines 129-132
normalize_keeping_comments(text) ==
    Let(text, LAMBDA t : collapse_spaces(lower(t)))
normalize(text) ==
    Let(text, LAMBDA t :
        Let(lower(remove_comments(t, 1)), LAMBDA u : collapse_spaces(u)))

(***************************************************************************)
(* difflib.SequenceMatcher(None, a, b).ratio(), as the standard library    *)
(* computes it.  Positions count from 0 as in difflib: a[i] there is       *)
(* a[i + 1] here.                                                          *)
(***************************************************************************)

\* autojunk of __chain_b: in a b of 200 elements or more, the elements that
\* occur more than len(b) // 100 + 1 times start no match
AutojunkMin == 200
bpopular(b) ==
    IF Len(b) >= AutojunkMin
    THEN {c \in {b[j] : j \in 1..Len(b)} :
             Cardinality({j \in 1..Len(b) : b[j] = c}) > (Len(b) \div 100) + 1}
    ELSE {}

\* the smaller of two numbers
Least(x, y) == IF x < y THEN x ELSE y

\* the blocks a[i:i+k] = b[j:j+k] of the windows that start no later and end
\* no earlier: <<i, j, k>>; popular elements of b are not matched
runs_in(a, b, popular, alo, ahi, blo, bhi) ==
    LET match(i, j) == a[i + 1] = b[j + 1] /\ b[j + 1] \notin popular
        run(i, j) ==
            Min({t \in 0..(Least(ahi - i, bhi - j) - 1) : ~match(i + t, j + t)}
                    \cup {Least(ahi - i, bhi - j)})
        starts == {ij \in (alo..(ahi - 1)) \X (blo..(bhi - 1)) :
                      /\ match(ij[1], ij[2])
                      /\ \/ ij[1] = alo
                         \/ ij[2] = blo
                         \/ ~match(ij[1] - 1, ij[2] - 1)}
    IN {<<ij[1], ij[2], run(ij[1], ij[2])>> : ij \in starts}

\* the longest of the runs, among the longest the one that starts earliest in
\* a, and of those the one that starts earliest in b; <<alo, blo, 0>> when
\* there is none
best_run(runs, alo, blo) ==
    IF runs = {} THEN <<alo, blo, 0>>
    ELSE CHOOSE r \in runs : \A q \in runs :
             \/ r[3] > q[3]
             \/ r[3] = q[3] /\ r[1] < q[1]
             \/ r[3] = q[3] /\ r[1] = q[1] /\ r[2] <= q[2]

\* the block is then widened over equal elements on both sides (only popular
\* ones can be left to take)
widened(a, b, alo, ahi, blo, bhi, r) ==
    LET same(i, j) == a[i + 1] = b[j + 1]
        room == Least(r[1] - alo, r[2] - blo)
        back == Min({t \in 0..(room - 1) : ~same(r[1] - 1 - t, r[2] - 1 - t)}
                        \cup {room})
        besti == r[1] - back
        bestj == r[2] - back
        size == r[3] + back
        ahead == Least(ahi - besti - size, bhi - bestj - size)
        more == Min({t \in 0..(ahead - 1) : ~same(besti + size + t, bestj + size + t)}
                        \cup {ahead})
    IN <<besti, bestj, size + more>>

\* find_longest_match(alo, ahi, blo, bhi): <<besti, bestj, bestsize>>
find_longest_match(a, b, popular, alo, ahi, blo, bhi) ==
    Let(runs_in(a, b, popular, alo, ahi, blo, bhi), LAMBDA runs :
        Let(best_run(runs, alo, blo), LAMBDA r :
            widened(a, b, alo, ahi, blo, bhi, r)))

\* the sum of the sizes of get_matching_blocks() within the windows: the
\* longest block x, then the same to its left and to its right
RECURSIVE matches(_, _, _, _, _, _, _)
around(a, b, popular, alo, ahi, blo, bhi, x) ==
    IF x[3] = 0 THEN 0
    ELSE x[3]
           + (IF alo < x[1] /\ blo < x[2]
              THEN matches(a, b, popular, alo, x[1], blo, x[2]) ELSE 0)
           + (IF x[1] + x[3] < ahi /\ x[2] + x[3] < bhi
              THEN matches(a, b, popular, x[1] + x[3], ahi, x[2] + x[3], bhi)
              ELSE 0)

matches(a, b, popular, alo, ahi, blo, bhi) ==
    Let(find_longest_match(a, b, popular, alo, ahi, blo, bhi), LAMBDA x :
        around(a, b, popular, alo, ahi, blo, bhi, x))

\* ratio() >= threshold, threshold in hundredths: ratio is 2.0 * M / T, and
\* 1.0 when T = 0
ratio_at_least(a, b, threshold) ==
    Let(bpopular(b), LAMBDA popular :
        Let(matches(a, b, popular, 0, Len(a), 0, Len(b)), LAMBDA M :
            IF Len(a) + Len(b) = 0 THEN 100 >= threshold
            ELSE 200 * M >= threshold * (Len(a) + Len(b))))

\* line 137
FuzzyMinLen == 50
\* the default of threshold (line 126), in hundredths
DefaultThreshold == 90

are_similar_by_ratio(snippet_a, snippet_b, threshold) ==
    Let(normalize(snippet_a), LAMBDA a_norm :
        Let(normalize(snippet_b), LAMBDA b_norm :
            ratio_at_least(a_norm, b_norm, threshold)))
are_similar(snippet_a, snippet_b, threshold) ==
    Let(normalize(snippet_a), LAMBDA a_norm :
        Let(normalize(snippet_b), LAMBDA b_norm :
            IF Len(a_norm) < FuzzyMinLen \/ Len(b_norm) < FuzzyMinLen
            THEN a_norm = b_norm
            ELSE ratio_at_least(a_norm, b_norm, threshold)))

(***************************************************************************)
(* deduplicate_snippets (src/ai-script.py 143-168)                         *)
(***************************************************************************)

\* \w of the declaration pattern
WordChars ==
    Digits \cup {"_"} \cup {UpperLetters[i] : i \in 1..26}
           \cup {LowerLetters[i] : i \in 1..26}

DeclKeywords ==
    { <<"f", "u", "n", "c", "t", "i", "o", "n">>,
      <<"c", "o", "n", "t", "r", "a", "c", "t">>,
      <<"c", "l", "a", "s", "s">> }

\* line 150: re.search(r'(function|contract|class)\s+\w+', s): a keyword, one
\* or more whitespace characters, then a word character
has_contract(s) ==
    \E i \in 1..Len(s) : \E kw \in DeclKeywords :
        /\ StartsWithAt(s, i, kw)
        /\ \E j \in (i + Len(kw) + 1)..Len(s) :
               /\ s[j] \in WordChars
               /\ \A k \in (i + Len(kw))..(j - 1) : s[k] \in SpaceChars

\* the weights of lines 149-152, in thousandths
LengthCap == 1000
ContractBonus == 500
TargetBonus == 300

\* lines 148-152, in thousandths.  The source adds floats.  For lengths
\* below 200 two snippets have equal float scores exactly when they have
\* equal thousandths, and the order is the same; for longer snippets that is
\* so between snippets with the same two flags (0.1 + 0.5 + 0.3 is not the
\* float 0.9), and the lists with longer snippets hold such snippets only.
score_snippet_uncapped(s) ==
    Len(s)
        + (IF has_contract(s) THEN ContractBonus ELSE 0)
        + (IF Contains(s, target_SC) THEN TargetBonus ELSE 0)
score_snippet(s) ==
    (IF Len(s) < LengthCap THEN Len(s) ELSE LengthCap)
        + (IF has_contract(s) THEN ContractBonus ELSE 0)
        + (IF Contains(s, target_SC) THEN TargetBonus ELSE 0)

QuoteChars == {"'", "\""}
MaskedLiteral == <<"\"", ".", ".", ".", "\"">>

\* line 162: re.sub(r'[\'"].*?[\'"]', '"..."', key) from position i on
RECURSIVE mask_literals(_, _)
mask_literals(key, i) ==
    LET opens == {j \in i..Len(key) :
                     /\ key[j] \in QuoteChars
                     /\ \E k \in (j + 1)..Len(key) : key[k] \in QuoteChars}
    IN IF opens = {} THEN SubSeq(key, i, Len(key))
       ELSE LET j == Min(opens)
                k == Min({c \in (j + 1)..Len(key) : key[c] \in QuoteChars})
            IN SubSeq(key, i, j - 1) \o MaskedLiteral \o mask_literals(key, k + 1)

\* lines 161-162
comparison_key(snippet) ==
    Let(collapse_spaces(lower(snippet)), LAMBDA key : mask_literals(key, 1))

\* lines 144-145 and 154: the snippets long enough, each with its score
scored_snippets(snippets, min_length) ==
    IF snippets = <<>> THEN <<>>
    ELSE Let(SelectSeq(snippets, LAMBDA x : Len(strip(x)) >= min_length),
             LAMBDA valid :
                 [i \in 1..Len(valid) |-> <<valid[i], score_snippet(valid[i])>>])

\* lines 154-155: the snippets long enough, by score, highest first; sort is
\* stable, so equal scores keep the order of the input
valid_snippets_as_given(snippets, min_length) ==
    SelectSeq(snippets, LAMBDA x : Len(strip(x)) >= min_length)
valid_snippets(snippets, min_length) ==
    Let(SelectSeq(snippets, LAMBDA x : Len(strip(x)) >= min_length), LAMBDA valid :
        Let([i \in 1..Len(valid) |-> score_snippet(valid[i])], LAMBDA score :
            LET n == Len(valid)
                rank(i) == Cardinality({j \in 1..n :
                               \/ score[j] > score[i]
                               \/ score[j] = score[i] /\ j < i})
            IN [r \in 1..n |-> valid[CHOOSE i \in 1..n : rank(i) = r - 1]]))

\* lines 160-166, from candidate number i on: <<unique, seen>>
RECURSIVE accept_loop(_, _, _, _)
accept_next_first_only(sorted, i, unique, seen, key) ==
    IF unique = <<>>
    THEN accept_loop(sorted, i + 1, Append(unique, sorted[i]), seen \cup {key})
    ELSE accept_loop(sorted, i + 1, unique, seen)
accept_next(sorted, i, unique, seen, key) ==
    IF /\ key \notin seen
       /\ ~\E k \in 1..Len(unique) :
              are_similar(sorted[i], unique[k], DefaultThreshold)
    THEN accept_loop(sorted, i + 1, Append(unique, sorted[i]), seen \cup {key})
    ELSE accept_loop(sorted, i + 1, unique, seen)

accept_loop(sorted, i, unique, seen) ==
    IF i > Len(sorted) THEN unique
    ELSE Let(<<unique, seen, comparison_key(sorted[i])>>, LAMBDA v :
             accept_next(sorted, i, v[1], v[2], v[3]))

deduplicate_snippets_newest_first(snippets, min_length) ==
    IF snippets = <<>> THEN <<>>
    ELSE Let(valid_snippets(snippets, min_length), LAMBDA sorted :
             Let(accept_loop(sorted, 1, <<>>, {}), LAMBDA unique :
                 [k \in 1..Len(unique) |-> unique[Len(unique) + 1 - k]]))
deduplicate_snippets(snippets, min_length) ==
    IF snippets = <<>> THEN <<>>
    ELSE Let(valid_snippets(snippets, min_length), LAMBDA sorted :
             accept_loop(sorted, 1, <<>>, {}))

(***************************************************************************)
(* Comparator and deduplicator inputs                                      *)
(***************************************************************************)

\* the length of the two runs that pad a snippet beyond the fuzzy floor
SimPad == 21
\* a threshold other than the default, in hundredths
SimAltThreshold == 95
\* the default of min_length (line 143) and another value
DefaultMinLength == 10
DedAltMinLength == 3
MaxSnippets == 3

Tide == <<"t", "i", "d", "e">>
Diet == <<"d", "i", "e", "t">>
TideLong == Rep("a", SimPad) \o Tide \o Rep("b", SimPad) \o Tide
DietLong == Rep("a", SimPad) \o Diet \o Rep("b", SimPad) \o Diet

FunctionF == <<"f", "u", "n", "c", "t", "i", "o", "n", " ", "f">>
FunctionUpper == <<"F", "u", "n", "c", "t", "i", "o", "n", " ", " ", "f">>
FunctionLineComment == FunctionF \o <<" ", "/", "/", "c", LF>>
FunctionBlockComment == <<"/", "*", "c", "*", "/">> \o FunctionF
FunctionSplitComment == <<"/", "*", "c", LF, "*", "/">> \o FunctionF
QuotedA == <<"x", " ", "=", " ", "\"", "a", "\"", ";", " ", "y", "z">>
QuotedB == <<"x", " ", "=", " ", "'", "b", "b", "'", ";", " ", "y", "z">>
TargetLine == target_SC \o <<";">>
Tiny == <<"a", "b">>
\* snippets of 40, 45 and 50 characters that differ by punctuation only
Plain40 == Rep("p", 40)
Punct45 == Rep("p", 40) \o Rep(";", 5)
Punct50 == Rep("p", 44) \o Rep(";", 6)

SimSnippets ==
    { TideLong, DietLong, FunctionF, FunctionUpper, FunctionLineComment,
      FunctionBlockComment, FunctionSplitComment, QuotedA, QuotedB, Tiny,
      Plain40, Punct45, Punct50 }

DedSnippets ==
    { TideLong, DietLong, FunctionF, FunctionLineComment, QuotedA, QuotedB,
      TargetLine, Tiny }

FunctionLine ==
    <<"f", "u", "n", "c", "t", "i", "o", "n", " ", "f", "(", ")", " ", "{">>

\* the lines of a short piece of code and of one whose normalized form is
\* beyond the fuzzy floor
BodyShort ==
    << FunctionLine,
       <<"x", " ", "=", " ", "1", ";">>,
       <<"}">> >>
BodyLong ==
    << FunctionLine,
       <<"x", " ", "=", " ">> \o Rep("y", 2 * SimPad) \o <<";">>,
       <<"}">> >>
CodeBodies == {BodyShort, BodyLong}
CommentLines ==
    { <<"/", "/", " ", "n", "o", "t", "e">>,
      <<"/", "*", " ", "n", "o", "t", "e", " ", "*", "/">> }
TrailingSpaces == { <<" ">>, <<"\t", " ">> }

\* the body with white space at the end of its first line and the comment
\* line put in after line k
WithComment(body, k, comment, space) ==
    join(<<body[1] \o space>> \o SubSeq(body, 2, k) \o <<comment>>
             \o SubSeq(body, k + 1, Len(body)))

\* a snippet and its commented copy, in both orders
CommentPairs ==
    UNION {{ <<join(body), WithComment(body, k, comment, space)>>,
             <<WithComment(body, k, comment, space), join(body)>> } :
               body \in CodeBodies, k \in 1..3, comment \in CommentLines,
               space \in TrailingSpaces}

\* snippets about as long as the cap of the length score: a head with or
\* without a declaration and the marker, a run of one letter up to a given
\* length, and white space at the end
ScoreShortLen == 20
ScoreOver == 200
ScoreHeads ==
    { <<>>, FunctionF \o <<" ">>, target_SC \o <<" ">>,
      FunctionF \o <<" ">> \o target_SC \o <<" ">> }
ScoreLens == {ScoreShortLen, LengthCap - 1, LengthCap, LengthCap + ScoreOver}
ScoreTails == {0, ScoreOver}
ScoreSnippet(head, n, m) == head \o Rep("y", n - Len(head)) \o Rep(" ", m)
ScoreLists ==
    UNION {{ <<ScoreSnippet(head, n, m[1])>>,
             <<ScoreSnippet(head, n, m[1]), ScoreSnippet(head, n, m[2])>> } :
               head \in ScoreHeads, n \in ScoreLens, m \in ScoreTails \X ScoreTails}

SimOff ==
    /\ sim_pc = "off"
    /\ sim_a = <<>>
    /\ sim_b = <<>>
    /\ sim_threshold = 0
    /\ sim_ab = FALSE
    /\ sim_ba = FALSE

SimStart ==
    /\ sim_pc = "input"
    /\ sim_a \in SimSnippets
    /\ sim_b \in SimSnippets
    /\ sim_threshold \in {DefaultThreshold, SimAltThreshold}
    /\ sim_ab = FALSE
    /\ sim_ba = FALSE

\* the two calls are_similar(a, b) and are_similar(b, a)
Compare ==
    /\ sim_pc = "input"
    /\ sim_ab' = are_similar(sim_a, sim_b, sim_threshold)
    /\ sim_ba' = are_similar(sim_b, sim_a, sim_threshold)
    /\ sim_pc' = "done"
    /\ UNCHANGED <<sim_a, sim_b, sim_threshold, san_vars, cmp_vars, ded_vars, p_vars, c_vars>>

DedOff ==
    /\ ded_pc = "off"
    /\ ded_snippets = <<>>
    /\ ded_min_length = 0
    /\ ded_unique = <<>>
    /\ ded_scored = <<>>
    /\ ded_again = <<>>

DedStart ==
    /\ ded_pc = "input"
    /\ ded_snippets \in SeqsOf(DedSnippets, 0, MaxSnippets) \cup CommentPairs
    /\ ded_min_length \in {DefaultMinLength, DedAltMinLength}
    /\ ded_unique = <<>>
    /\ ded_scored = <<>>
    /\ ded_again = <<>>

Deduplicate ==
    /\ ded_pc = "input"
    /\ ded_unique' = deduplicate_snippets(ded_snippets, ded_min_length)
    /\ ded_scored' = scored_snippets(ded_snippets, ded_min_length)
    /\ ded_pc' = "done"
    /\ UNCHANGED <<ded_snippets, ded_min_length, ded_again, san_vars, cmp_vars,
                   sim_vars, p_vars, c_vars>>

\* deduplicate_snippets called with the list it returned
DeduplicateAgain ==
    /\ ded_pc = "done"
    /\ ded_again' = deduplicate_snippets(ded_unique, ded_min_length)
    /\ ded_pc' = "again"
    /\ UNCHANGED <<ded_snippets, ded_min_length, ded_unique, ded_scored, san_vars,
                   cmp_vars, sim_vars, p_vars, c_vars>>

(***************************************************************************)
(* GitHubAPI.search_contract (src/ai-script.py 494-550)                    *)
(***************************************************************************)

\* line 506
max_retries == 3
\* line 517
sleep_time == 10
\* line 504
per_page == 100
\* line 546: time.sleep(2 ** current_retry)
backoff_base == 2

\* lines 502-505: the query of every request; no page is ever named
params(addr) == [q |-> addr, per_page |-> per_page]

\* The service's answer to a successful request: a request that names no
\* page is served the first page (none when there are no results).
response_items_of_all_pages(pages, request) == Flatten(pages)
response_items(pages, request) == IF pages = <<>> THEN <<>> ELSE pages[1]

\* The responses of the service: a status code and the value of the
\* X-RateLimit-Remaining header, "missing" when the response has none.
Answers ==
    { [status |-> 200, quota |-> "5"],
      [status |-> 403, quota |-> "0"],
      [status |-> 403, quota |-> "missing"],
      [status |-> 403, quota |-> "5"],
      [status |-> 500, quota |-> "missing"] }
\* no response: the request timed out, or none was made yet
NoAnswer == [status |-> 0, quota |-> "missing"]

\* line 514: int(response.headers.get('X-RateLimit-Remaining', 0))
remaining(answer) ==
    CASE answer.quota = "missing" -> 0
      [] answer.quota = "0" -> 0
      [] answer.quota = "5" -> 5

\* lines 513-521: what the loop does with a response; raise_for_status()
\* raises for the statuses 400..599
handling(answer) ==
    IF answer.status = 403 /\ remaining(answer) = 0 THEN "rate_limit"
    ELSE IF answer.status >= 400 /\ answer.status < 600 THEN "http_error"
    ELSE "ok"

\* line 520: a rate-limited response goes round the loop again
retry_spent_on_rate_limit(retry) == retry + 1
retry_after_rate_limit(retry) == retry

\* line 544
retry_after_failure(retry) == retry + 1

\* line 546
backoff(retry) == backoff_base ^ retry

\* line 510
loop_continues_once_more(retry) == retry <= max_retries
loop_continues(retry) == retry < max_retries

\* lines 526-536: the repository of an item, recorded once
add_repo_of_every_item(repos, item) ==
    IF item.repo # <<>>
    THEN Append(repos, [repo_name |-> item.repo, file_path |-> item.path])
    ELSE repos
add_repo(repos, item) ==
    IF item.repo # <<>> /\ ~\E k \in 1..Len(repos) : repos[k].repo_name = item.repo
    THEN Append(repos, [repo_name |-> item.repo, file_path |-> item.path])
    ELSE repos

\* lines 538-541: the non-empty fragments of an item
item_snippets(item) == SelectSeq(item.fragments, LAMBDA f : f # <<>>)

\* lines 524-541 over the items from number i on: <<all_repos, all_snippets>>
RECURSIVE accumulate(_, _, _, _)
accumulate(items, i, repos, snips) ==
    IF i > Len(items) THEN <<repos, snips>>
    ELSE accumulate(items, i + 1, add_repo(repos, items[i]),
                    snips \o item_snippets(items[i]))

(***************************************************************************)
(* process_contracts (src/ai-script.py 556-623) and get_ai_metadata        *)
(* (173-223)                                                               *)
(***************************************************************************)

\* line 556
TOP_SNIPPETS_COUNT == 10

\* line 597: sorted(unique_snippets, key=len, reverse=True); the sort is stable
sorted_as_given(snips) == snips
sorted_by_length(snips) ==
    LET n == Len(snips)
        rank(i) == Cardinality({j \in 1..n :
                       \/ Len(snips[j]) > Len(snips[i])
                       \/ Len(snips[j]) = Len(snips[i]) /\ j < i})
    IN [r \in 1..n |-> snips[CHOOSE i \in 1..n : rank(i) = r - 1]]

\* lines 595-601
top_cut(snips) ==
    IF snips = <<>> THEN <<>>
    ELSE LET sorted == sorted_by_length(snips)
         IN SubSeq(sorted, 1,
                   IF Len(sorted) < TOP_SNIPPETS_COUNT THEN Len(sorted)
                   ELSE TOP_SNIPPETS_COUNT)

\* line 183
irrelevant_words ==
    { <<"a", "b", "i">>,
      <<"r", "e", "c", "e", "i", "p", "t">>,
      <<"l", "o", "g", "s", "b", "l", "o", "o", "m">>,
      <<"0", "x", "0", "0", "0", "0">> }

Targer_SC == <<"T", "a", "r", "g", "e", "r", "_", "S", "C">>

\* str.replace(old, new) from position i on
RECURSIVE replace(_, _, _, _)
replace(text, i, old, new) ==
    LET found == {j \in i..Len(text) : StartsWithAt(text, j, old)}
    IN IF found = {} THEN SubSeq(text, i, Len(text))
       ELSE LET j == Min(found)
            IN SubSeq(text, i, j - 1) \o new \o replace(text, j + Len(old), old, new)

\* line 195: max_length=400
ai_max_length == 400
\* line 191
ai_min_chars == 50
ai_min_newlines == 2

\* line 183
is_irrelevant(snippet) == \E w \in irrelevant_words : Contains(lower(snippet), w)

\* lines 187-188
sanitized(snippet, target_address) ==
    sanitize_hex_addresses(replace(snippet, 1, Targer_SC, target_SC), target_address)

\* line 191
too_small(snippet) ==
    \/ Len(strip(snippet)) < ai_min_chars
    \/ Cardinality({i \in 1..Len(snippet) : snippet[i] = LF}) < ai_min_newlines

\* lines 181-197 for one snippet: what it adds to processed_snippets
processed(raw, target_address) ==
    IF is_irrelevant(raw) THEN <<>>
    ELSE Let(sanitized(raw, target_address), LAMBDA snippet :
             IF too_small(snippet) THEN <<>>
             ELSE Let(compress_snippet(snippet, target_SC, ai_max_length),
                      LAMBDA compressed :
                          IF compressed = <<>> THEN <<>> ELSE <<compressed>>))

\* lines 180-197 from snippet number i on: processed_snippets
RECURSIVE processed_snippets(_, _, _)
processed_snippets(snips, i, target_address) ==
    IF i > Len(snips) THEN <<>>
    ELSE processed(snips[i], target_address)
             \o processed_snippets(snips, i + 1, target_address)

\* lines 548-549 of search_contract: the fragments are deduplicated as they
\* were fetched
unique_of_processed_snippets(snips) ==
    deduplicate_snippets(processed_snippets(snips, 1, AddrLow), DefaultMinLength)
unique_snippets(snips) == deduplicate_snippets(snips, DefaultMinLength)

\* the stages lines 180-197 run, snippet by snippet
RECURSIVE analysis_stages(_, _, _)
analysis_stages(snips, i, target_address) ==
    IF i > Len(snips) THEN <<>>
    ELSE LET rest == analysis_stages(snips, i + 1, target_address)
         IN IF is_irrelevant(snips[i]) THEN rest
            ELSE IF too_small(sanitized(snips[i], target_address))
            THEN <<"sanitize">> \o rest
            ELSE <<"sanitize", "compress">> \o rest

\* lines 200-207
excluded_repos ==
    { <<"0", "x", "t", "o", "r", "c", "h", "/", "d", "a", "t", "a", "s", "o", "u", "r", "c", "e">>,
      <<"K", "e", "y", "s", "t", "o", "n", "e", "H", "Q", "/", "S", "m", "a", "r", "t", "-", "C", "o", "n", "t", "r", "a", "c", "t", "-", "M", "e", "t", "a", "d", "a", "t", "a", "-", "R", "e", "g", "i", "s", "t", "r", "y">>,
      <<"t", "a", "n", "g", "t", "j", "/", "b", "s", "c", "-", "c", "o", "n", "t", "r", "a", "c", "t", "-", "d", "a", "t", "a", "b", "a", "s", "e">>,
      <<"f", "i", "r", "e", "b", "l", "o", "c", "k", "s", "/", "r", "e", "c", "o", "v", "e", "r", "y">>,
      <<"e", "n", "z", "y", "m", "e", "f", "i", "n", "a", "n", "c", "e", "/", "s", "d", "k">>,
      <<"M", "y", "E", "t", "h", "e", "r", "W", "a", "l", "l", "e", "t", "/", "e", "t", "h", "e", "r", "e", "u", "m", "-", "l", "i", "s", "t", "s">> }

\* repo.count('/')
slashes(repo) == Cardinality({i \in 1..Len(repo) : repo[i] = "/"})

\* lines 210-218, in halves: 2 for "contract", 1 for "proxy", 0.5 for a path
\* with fewer than two slashes
repo_score(repo) ==
    (IF Contains(lower(repo), <<"c", "o", "n", "t", "r", "a", "c", "t">>) THEN 4 ELSE 0)
        + (IF Contains(lower(repo), <<"p", "r", "o", "x", "y">>) THEN 2 ELSE 0)
        + (IF slashes(repo) < 2 THEN 1 ELSE 0)

\* line 222: the key (repo_score(x), -len(x.split('/'))) of x is below that
\* of y
key_below(x, y) ==
    \/ repo_score(x) < repo_score(y)
    \/ repo_score(x) = repo_score(y) /\ -(slashes(x) + 1) < -(slashes(y) + 1)
key_equal(x, y) ==
    repo_score(x) = repo_score(y) /\ slashes(x) = slashes(y)

\* line 223: the number of paths passed on
prompt_repo_count == 3

\* lines 220-223: the paths not excluded, sorted by the key in ascending
\* order (sorted is stable), and the first three of them
sorted_repos(repo_paths) ==
    Let(SelectSeq(repo_paths, LAMBDA repo : repo \notin excluded_repos), LAMBDA kept :
        LET n == Len(kept)
            rank(i) == Cardinality({j \in 1..n :
                           \/ key_below(kept[j], kept[i])
                           \/ key_equal(kept[j], kept[i]) /\ j < i})
            sorted == [r \in 1..n |-> kept[CHOOSE i \in 1..n : rank(i) = r - 1]]
        IN SubSeq(sorted, 1, Least(n, prompt_repo_count)))

\* line 590: list({...}): the names of a set in one of its orders
orders(S) ==
    {p \in [1..Cardinality(S) -> S] :
        \A i, j \in 1..Cardinality(S) : i # j => p[i] # p[j]}

\* '\n\n'.join(snippets), line 468
RECURSIVE join_blank_line(_)
join_blank_line(snips) ==
    IF snips = <<>> THEN <<>>
    ELSE IF Len(snips) = 1 THEN snips[1]
    ELSE snips[1] \o <<LF, LF>> \o join_blank_line(Tail(snips))

\* AirtableAPI.update_record, lines 440-468: the record after the request;
\* the AI fields and ai_snippets are sent only when there is something to send
record_fields(old, repos, metadata, snips) ==
    [old EXCEPT !.github_found = repos # <<>>,
                !.repo_count = Len(repos),
                !.repo_paths = {repos[k].repo_name : k \in 1..Len(repos)},
                !.ai = IF metadata # "none" THEN metadata ELSE @,
                !.ai_snippets = IF snips # <<>> THEN join_blank_line(snips) ELSE @]

(***************************************************************************)
(* The batch and the search service                                        *)
(***************************************************************************)

MaxRecords == 2
MaxPages == 2
MaxRateLimits == 2
\* the length of the filler line of a fragment
FillLen == 20

\* three lines of source that name the target address
FragCode ==
    FunctionLine \o <<LF, "u", " ", "=", " ">> \o AddrLow \o <<";", LF>>
        \o Rep("y", FillLen)
\* one short line that names another address
FragOther == <<"v", " ", "=", " ">> \o AddrZero \o <<";">>
\* packed data: an address ending in 0 run together with "x" and 40 digits
FragPacked ==
    FunctionLine \o <<LF>> \o AddrZero \o <<"x">> \o HexRun \o <<LF>>
        \o Rep("z", FillLen)

\* repository names (full_name: owner/name)
RepoOne ==
    <<"o", "r", "g", "/", "o", "n", "e">>
RepoTwo ==
    <<"o", "r", "g", "/", "t", "w", "o">>
RepoMany ==
    <<"o", "r", "g", "/", "m", "a", "n", "y">>
RepoContract ==
    <<"o", "r", "g", "/", "c", "o", "n", "t", "r", "a", "c", "t", "s">>
RepoProxy ==
    <<"o", "r", "g", "/", "p", "r", "o", "x", "y">>
RepoProxyContract ==
    <<"o", "r", "g", "/", "P", "r", "o", "x", "y", "-", "C", "o", "n", "t",
      "r", "a", "c", "t">>

ItemOne == [repo |-> RepoOne, path |-> "a.sol", fragments |-> <<FragCode>>]
ItemOneAgain == [repo |-> RepoOne, path |-> "b.sol", fragments |-> <<FragOther>>]
ItemTwo == [repo |-> RepoTwo, path |-> "c.sol", fragments |-> <<FragPacked, <<>>>>]

PageA == <<ItemOne, ItemOneAgain>>

\* a file with many matches: every third a short function head, the others
\* runs of one letter of different lengths
ManyFragments == 12
ManyFragment(i) ==
    IF i % 3 = 0
    THEN <<"f", "u", "n", "c", "t", "i", "o", "n", " ", "g", LowerLetters[i]>>
    ELSE Rep(LowerLetters[i], 12 + i)
\* n of these matches, beginning with number k + 1
ItemMany(n, k) ==
    [repo |-> RepoMany, path |-> "d.sol",
     fragments |-> [i \in 1..n |-> ManyFragment(((i + k - 1) % n) + 1)]]
ManyPages ==
    {<<ItemMany(n, k)>> : n \in (TOP_SNIPPETS_COUNT - 1)..ManyFragments,
                          k \in {0, 3, 7}}
PageB == <<ItemTwo>>

\* a page that names several repositories: the item of org/one with its
\* fragment, then up to MaxRepoItems items of other repositories, each named
\* once, among them one of the excluded ones
MaxRepoItems == 3
RepoExcluded == <<"f", "i", "r", "e", "b", "l", "o", "c", "k", "s", "/", "r", "e", "c", "o", "v", "e", "r", "y">>
RepoNames == {RepoTwo, RepoContract, RepoProxy, RepoProxyContract, RepoExcluded}
RepoItem(repo) == [repo |-> repo, path |-> "r.sol", fragments |-> <<>>]
RepoPages ==
    {<<ItemOne>> \o [k \in 1..Len(names) |-> RepoItem(names[k])] :
        names \in {ns \in SeqsOf(RepoNames, 0, MaxRepoItems) :
                      \A i, j \in 1..Len(ns) : i # j => ns[i] # ns[j]}}
\* the pages a service holds for an identifier: none, or up to MaxPages pages
\* that begin with either page and alternate
PagesFrom(first, second) ==
    [n \in 1..MaxPages |-> IF n % 2 = 1 THEN first ELSE second]
Services ==
    {SubSeq(PagesFrom(PageA, PageB), 1, n) : n \in 0..MaxPages}
        \cup {SubSeq(PagesFrom(PageB, PageA), 1, n) : n \in 0..MaxPages}

\* a record with no address is skipped (lines 579-581)
NoAddress == <<>>
Batches == SeqsOf({AddrLow, NoAddress}, 1, MaxRecords)

\* raise_for_status() on an error status (also 403 with quota left), or the
\* request itself failing
TransientKinds == {"http_error", "timeout"}

NoFields == [github_found |-> FALSE, repo_count |-> 0, repo_paths |-> {},
             ai |-> "unwritten", ai_snippets |-> <<>>]

SearchIdle ==
    /\ address = <<>>
    /\ service = <<>>
    /\ current_retry = 0
    /\ rate_limits = 0
    /\ requests = <<>>
    /\ last_response = "none"
    /\ last_answer = NoAnswer
    /\ last_sleep = 0
    /\ all_repos = <<>>
    /\ all_snippets = <<>>
    /\ repos_data = <<>>
    /\ found_snippets = <<>>
    /\ top_snippets = <<>>
    /\ prompt_snippets = <<>>
    /\ prompt_repos = <<>>
    /\ ai_metadata = "none"
    /\ stages = <<>>

POff ==
    /\ p_pc = "off"
    /\ records = <<>>
    /\ p_index = 0
    /\ stored = <<>>
    /\ SearchIdle

PStart ==
    /\ p_pc = "next"
    /\ records \in Batches
    /\ p_index = 0
    /\ stored = [i \in 1..Len(records) |-> NoFields]
    /\ SearchIdle

others == <<san_vars, cmp_vars, sim_vars, ded_vars, c_vars>>

\* lines 575-585: the next record; search_contract starts with lines 501-509
StartRecord ==
    /\ p_pc = "next"
    /\ p_index < Len(records)
    /\ p_index' = p_index + 1
    /\ address' = records[p_index + 1]
    /\ IF records[p_index + 1] = NoAddress
       THEN p_pc' = "next" /\ service' = <<>>
       ELSE p_pc' = "fetching" /\ service' \in Services
    /\ current_retry' = 0
    /\ rate_limits' = 0
    /\ requests' = <<>>
    /\ last_response' = "none"
    /\ last_answer' = NoAnswer
    /\ last_sleep' = 0
    /\ all_repos' = <<>>
    /\ all_snippets' = <<>>
    /\ repos_data' = <<>>
    /\ found_snippets' = <<>>
    /\ top_snippets' = <<>>
    /\ prompt_snippets' = <<>>
    /\ prompt_repos' = <<>>
    /\ ai_metadata' = "none"
    /\ stages' = <<>>
    /\ UNCHANGED <<records, stored, others>>

\* line 619
Finish ==
    /\ p_pc = "next"
    /\ p_index = Len(records)
    /\ p_pc' = "finished"
    /\ UNCHANGED <<records, p_index, address, service, current_retry, rate_limits,
                   requests, last_response, last_answer,
                   last_sleep, all_repos, all_snippets,
                   repos_data, found_snippets, top_snippets, prompt_snippets,
                   prompt_repos, 
                   ai_metadata, stored, stages, others>>

\* lines 512-520: status 403 with no remaining quota
RateLimited ==
    /\ p_pc = "fetching"
    /\ loop_continues(current_retry)
    /\ rate_limits < MaxRateLimits
    /\ requests' = Append(requests, params(address))
    /\ \E answer \in Answers :
           /\ handling(answer) = "rate_limit"
           /\ last_answer' = answer
    /\ last_response' = "rate_limit"
    /\ rate_limits' = rate_limits + 1
    /\ last_sleep' = sleep_time
    /\ current_retry' = retry_after_rate_limit(current_retry)
    /\ UNCHANGED <<p_pc, records, p_index, address, service, all_repos,
                   all_snippets, repos_data, found_snippets, top_snippets,
                   prompt_snippets, prompt_repos,
                   ai_metadata, stored, stages, others>>

\* lines 512, 521, 543-546: the request fails; after the last attempt the
\* loop ends and lines 548-550 return what has been accumulated
TransientFailure ==
    /\ p_pc = "fetching"
    /\ loop_continues(current_retry)
    /\ \E kind \in TransientKinds :
           /\ last_response' = kind
           /\ IF kind = "http_error"
              THEN \E answer \in Answers :
                       /\ handling(answer) = "http_error"
                       /\ last_answer' = answer
              ELSE last_answer' = NoAnswer
    /\ requests' = Append(requests, params(address))
    /\ current_retry' = retry_after_failure(current_retry)
    /\ last_sleep' = backoff(current_retry')
    /\ IF loop_continues(current_retry')
       THEN UNCHANGED <<p_pc, repos_data, found_snippets, stages>>
       ELSE /\ p_pc' = "cut"
            /\ repos_data' = all_repos
            /\ found_snippets' = unique_snippets(all_snippets)
            /\ stages' = stages \o <<"fetch", "deduplicate">>
    /\ UNCHANGED <<records, p_index, address, service, rate_limits, all_repos,
                   all_snippets, top_snippets, prompt_snippets, prompt_repos,
                   ai_metadata,
                   stored, others>>

\* lines 512-542 and 548-550: the request succeeds, its items are merged, the
\* loop breaks and the result is returned
Success ==
    /\ p_pc = "fetching"
    /\ loop_continues(current_retry)
    /\ requests' = Append(requests, params(address))
    /\ \E answer \in Answers :
           /\ handling(answer) = "ok"
           /\ last_answer' = answer
    /\ last_response' = "ok"
    /\ LET acc == accumulate(response_items(service, params(address)), 1,
                             all_repos, all_snippets)
       IN /\ all_repos' = acc[1]
          /\ all_snippets' = acc[2]
          /\ repos_data' = acc[1]
          /\ found_snippets' = unique_snippets(acc[2])
    /\ stages' = stages \o <<"fetch", "deduplicate">>
    /\ p_pc' = "cut"
    /\ UNCHANGED <<records, p_index, address, service, current_retry, rate_limits,
                   last_sleep, top_snippets, prompt_snippets, prompt_repos,
                   ai_metadata, stored,
                   others>>

\* the shapes of a response that the code does not expect: the body lacks
\* "items", "items" is null, an item's "repository" is null, or the
\* X-RateLimit-Remaining header of a 403 is not a number
MalformedShapes ==
    {"items_missing", "items_null", "repository_null", "quota_header_text"}

\* what lines 512-541 do with such a response: "empty" when the request ends
\* as a successful one without items, "raise" when an exception that is no
\* RequestException leaves search_contract
malformed_outcome(shape) ==
    CASE shape = "items_missing" -> "empty"
      [] shape = "items_null" -> "raise"
      [] shape = "repository_null" -> "raise"
      [] shape = "quota_header_text" -> "raise"

\* lines 512-541 on a response of unexpected shape; an exception is caught at
\* lines 621-623 of process_contracts, printed and raised again, which ends
\* the batch
MalformedResponse ==
    /\ p_pc = "fetching"
    /\ loop_continues(current_retry)
    /\ \E shape \in MalformedShapes :
           /\ last_response' = shape
           /\ last_answer' = IF shape = "quota_header_text"
                             THEN [status |-> 403, quota |-> "text"]
                             ELSE [status |-> 200, quota |-> "5"]
           /\ IF malformed_outcome(shape) = "empty"
              THEN /\ p_pc' = "cut"
                   /\ repos_data' = all_repos
                   /\ found_snippets' = unique_snippets(all_snippets)
                   /\ stages' = stages \o <<"fetch", "deduplicate">>
              ELSE /\ p_pc' = "raised"
                   /\ UNCHANGED <<repos_data, found_snippets, stages>>
    /\ requests' = Append(requests, params(address))
    /\ UNCHANGED <<records, p_index, address, service, current_retry, rate_limits,
                   last_sleep, all_repos, all_snippets, top_snippets,
                   prompt_snippets, prompt_repos, ai_metadata, stored, others>>

\* lines 586-607
TopCut ==
    /\ p_pc = "cut"
    /\ top_snippets' = top_cut(found_snippets)
    /\ stages' = Append(stages, "cut")
    /\ p_pc' = IF top_cut(found_snippets) # <<>> THEN "analyse" ELSE "update"
    /\ UNCHANGED <<records, p_index, address, service, current_retry, rate_limits,
                   requests, last_response, last_answer,
                   last_sleep, all_repos, all_snippets,
                   repos_data, found_snippets, prompt_snippets, prompt_repos,
                   ai_metadata, stored,
                   others>>

\* lines 608-612: get_ai_metadata; the analysis answers or fails
Analyse ==
    /\ p_pc = "analyse"
    /\ prompt_snippets' = processed_snippets(top_snippets, 1, address)
    /\ \E repo_paths \in orders({repos_data[k].repo_name : k \in 1..Len(repos_data)}) :
           prompt_repos' = sorted_repos(repo_paths)
    /\ stages' = stages \o analysis_stages(top_snippets, 1, address)
    /\ \E answer \in {"metadata", "none"} : ai_metadata' = answer
    /\ p_pc' = "update"
    /\ UNCHANGED <<records, p_index, address, service, current_retry, rate_limits,
                   requests, last_response, last_answer,
                   last_sleep, all_repos, all_snippets,
                   repos_data, found_snippets, top_snippets, stored, others>>

\* lines 614-617: AirtableAPI.update_record; the write goes through or fails
\* for good
UpdateRecord ==
    /\ p_pc = "update"
    /\ \E written \in BOOLEAN :
           stored' = IF written
                     THEN [stored EXCEPT ![p_index] =
                               record_fields(stored[p_index], repos_data,
                                             ai_metadata, top_snippets)]
                     ELSE stored
    /\ stages' = Append(stages, "update")
    /\ p_pc' = "next"
    /\ UNCHANGED <<records, p_index, address, service, current_retry, rate_limits,
                   requests, last_response, last_answer,
                   last_sleep, all_repos, all_snippets,
                   repos_data, found_snippets, top_snippets, prompt_snippets,
                   prompt_repos, 
                   ai_metadata, others>>

(***************************************************************************)
(* The counting batch: GitHubAPI.search_contract (src/Script.py 200-274)   *)
(* and process_all_contracts (326-367)                                     *)
(***************************************************************************)

\* Script.py lines 33-37
EXCLUDED_REPOS ==
    { <<"H", "e", "l", "a", "y", "L", "i", "u", "/", "u", "t", "i", "l", "s", "_", "d", "o", "w", "n", "l", "o", "a", "d">>,
      <<"K", "e", "y", "s", "t", "o", "n", "e", "H", "Q", "/", "S", "m",
        "a", "r", "t", "-", "C", "o", "n", "t", "r", "a", "c", "t", "-",
        "M", "e", "t", "a", "d", "a", "t", "a", "-", "R", "e", "g", "i",
        "s", "t", "r", "y">>,
      <<"t", "a", "n", "g", "t", "j", "/">> }

\* lines 239-249: a name ending in "/" excludes every repository of that
\* owner, another name excludes the repository of that name
should_exclude(repo_full_name) ==
    \E excluded_repo \in EXCLUDED_REPOS :
        IF EndsWith(excluded_repo, <<"/">>)
        THEN StartsWithAt(repo_full_name, 1, excluded_repo)
        ELSE repo_full_name = excluded_repo

\* lines 236-254: the items that are not excluded, counted
valid_count(items) ==
    Len(SelectSeq(items, LAMBDA item : ~should_exclude(item.repo)))

\* line 209
count_max_retries == 3
\* line 257
count_threshold == 100

\* lines 262 and 264: (count > 0, count)
outcome_found_always(count) == [found |-> TRUE, count |-> count]
outcome(count) == [found |-> count > 0, count |-> count]

\* line 274: (False, 0)
search_failed == [found |-> FALSE, count |-> 0]

\* no result yet
NoOutcome == [found |-> FALSE, count |-> -1]
\* a record with NULL repo_count, and no update sent
NoBody == [github_found |-> FALSE, repo_count |-> -1]

\* the pages the service answers the counting search with, the repository
\* name of each item: none, ordinary, excluded by name, excluded by owner,
\* missing, and a page of count_threshold items
RepoTangtj == <<"t", "a", "n", "g", "t", "j", "/", "b", "s", "c">>
RepoKeystone ==
    <<"K", "e", "y", "s", "t", "o", "n", "e", "H", "Q", "/", "S", "m", "a",
      "r", "t", "-", "C", "o", "n", "t", "r", "a", "c", "t", "-", "M", "e",
      "t", "a", "d", "a", "t", "a", "-", "R", "e", "g", "i", "s", "t", "r",
      "y">>
CountItem(repo) == [repo |-> repo]
CountPages ==
    { <<>>,
      <<CountItem(RepoOne)>>,
      <<CountItem(RepoTangtj), CountItem(RepoKeystone)>>,
      <<CountItem(RepoOne), CountItem(RepoTangtj), CountItem(RepoTwo)>>,
      <<CountItem(<<>>)>>,
      [k \in 1..count_threshold |-> CountItem(RepoOne)] }

\* lines 277-324, _calculate_filtered_count: the count of a further response,
\* or 0 when that request fails
filtered_counts == {valid_count(items) : items \in CountPages} \cup {0}

CountOff ==
    /\ c_pc = "off"
    /\ c_records = <<>>
    /\ c_index = 0
    /\ c_retry = 0
    /\ c_rate_limits = 0
    /\ c_outcome = NoOutcome
    /\ c_body = NoBody
    /\ c_stored = <<>>
    /\ c_no_github = <<>>

\* lines 330-335: the unprocessed records
CountStart ==
    /\ c_pc = "next"
    /\ c_records \in Batches
    /\ c_index = 0
    /\ c_retry = 0
    /\ c_rate_limits = 0
    /\ c_outcome = NoOutcome
    /\ c_body = NoBody
    /\ c_stored = [i \in 1..Len(c_records) |-> NoBody]
    /\ c_no_github = <<>>

c_others == <<san_vars, cmp_vars, sim_vars, ded_vars, p_vars>>

\* lines 337-350: the next record; a record without address is skipped
CountStartRecord ==
    /\ c_pc = "next"
    /\ c_index < Len(c_records)
    /\ c_index' = c_index + 1
    /\ c_pc' = IF c_records[c_index + 1] = NoAddress THEN "next" ELSE "searching"
    /\ c_retry' = 0
    /\ c_rate_limits' = 0
    /\ c_outcome' = NoOutcome
    /\ c_body' = NoBody
    /\ UNCHANGED <<c_records, c_stored, c_no_github, c_others>>

\* lines 223-230: status 403 and no quota left
CountRateLimited ==
    /\ c_pc = "searching"
    /\ c_rate_limits < MaxRateLimits
    /\ c_rate_limits' = c_rate_limits + 1
    /\ UNCHANGED <<c_pc, c_records, c_index, c_retry, c_outcome, c_body, c_stored,
                   c_no_github, c_others>>

\* lines 266-274: the request fails; after the last attempt (False, 0) is
\* returned
CountFailure ==
    /\ c_pc = "searching"
    /\ c_retry' = c_retry + 1
    /\ IF c_retry' < count_max_retries
       THEN UNCHANGED <<c_pc, c_outcome>>
       ELSE c_outcome' = search_failed /\ c_pc' = "update"
    /\ UNCHANGED <<c_records, c_index, c_rate_limits, c_body, c_stored,
                   c_no_github, c_others>>

\* lines 232-264: the request succeeds
CountSuccess ==
    /\ c_pc = "searching"
    /\ \E items \in CountPages :
           IF valid_count(items) > 0 /\ Len(items) >= count_threshold
           THEN \E total_valid_count \in filtered_counts :
                    c_outcome' = outcome(total_valid_count)
           ELSE c_outcome' = outcome(valid_count(items))
    /\ c_pc' = "update"
    /\ UNCHANGED <<c_records, c_index, c_retry, c_rate_limits, c_body, c_stored,
                   c_no_github, c_others>>

\* lines 353-358: the address is saved to the file of contracts without
\* repositories when nothing was found (the file may fail to be written),
\* and the record is updated (the update goes through or fails for good)
CountUpdate ==
    /\ c_pc = "update"
    /\ IF ~c_outcome.found
       THEN \E kept \in BOOLEAN :
                c_no_github' = Append(c_no_github,
                    [contract_address |-> c_records[c_index], kept |-> kept])
       ELSE UNCHANGED c_no_github
    /\ c_body' = [github_found |-> c_outcome.found, repo_count |-> c_outcome.count]
    /\ \E written \in BOOLEAN :
           c_stored' = IF written THEN [c_stored EXCEPT ![c_index] = c_body']
                       ELSE c_stored
    /\ c_pc' = "next"
    /\ UNCHANGED <<c_records, c_index, c_retry, c_rate_limits, c_outcome, c_others>>

\* line 363
CountFinish ==
    /\ c_pc = "next"
    /\ c_index = Len(c_records)
    /\ c_pc' = "finished"
    /\ UNCHANGED <<c_records, c_index, c_retry, c_rate_limits, c_outcome, c_body,
                   c_stored, c_no_github, c_others>>

(***************************************************************************)
(* Specifications                                                          *)
(***************************************************************************)

SanInit == SanStart /\ CmpOff /\ SimOff /\ DedOff /\ POff /\ CountOff
SanNext == SanitizeOnce \/ SanitizeTwice \/ SanitizeOther \/ SanitizeAgain
SpecSan == SanInit /\ [][SanNext]_vars

CmpInit == CmpStart /\ SanOff /\ SimOff /\ DedOff /\ POff /\ CountOff
CmpNext == Compress
SpecCmp == CmpInit /\ [][CmpNext]_vars

SimInit == SimStart /\ SanOff /\ CmpOff /\ DedOff /\ POff /\ CountOff
SimNext == Compare
SpecSim == SimInit /\ [][SimNext]_vars

DedInit == DedStart /\ SanOff /\ CmpOff /\ SimOff /\ POff /\ CountOff
DedNext == Deduplicate \/ DeduplicateAgain
SpecDed == DedInit /\ [][DedNext]_vars

\* compress_snippet and deduplicate_snippets side by side, on empty and on
\* small inputs
LawInit ==
    /\ cmp_pc = "input"
    /\ cmp_snippet \in {<<>>, Tiny, TargetLine}
    /\ cmp_marker \in CmpMarkers
    /\ cmp_max_length \in CmpLengths
    /\ cmp_out = <<>>
    /\ ded_pc = "input"
    /\ ded_snippets \in SeqsOf({Tiny, FunctionF}, 0, 1)
    /\ ded_min_length \in {DefaultMinLength, DedAltMinLength}
    /\ ded_unique = <<>>
    /\ ded_scored = <<>>
    /\ ded_again = <<>>
    /\ SanOff /\ SimOff /\ POff /\ CountOff
LawNext == Compress \/ Deduplicate
SpecLaw == LawInit /\ [][LawNext]_vars

\* deduplicate_snippets on one or two snippets that are alike up to the
\* white space at their end, a few characters long or about LengthCap long
ScoreInit ==
    /\ ded_pc = "input"
    /\ ded_snippets \in ScoreLists
    /\ ded_min_length \in {DefaultMinLength, DedAltMinLength}
    /\ ded_unique = <<>>
    /\ ded_scored = <<>>
    /\ ded_again = <<>>
    /\ SanOff /\ CmpOff /\ SimOff /\ POff /\ CountOff
ScoreNext == Deduplicate
SpecScore == ScoreInit /\ [][ScoreNext]_vars

\* process_contracts when the search for the one record of a batch has just
\* returned the matches of a file with many matches: the state StartRecord
\* and Success lead to
CutInit ==
    /\ \E page \in ManyPages :
           /\ service = <<page>>
           /\ all_repos = accumulate(page, 1, <<>>, <<>>)[1]
           /\ all_snippets = accumulate(page, 1, <<>>, <<>>)[2]
           /\ repos_data = accumulate(page, 1, <<>>, <<>>)[1]
           /\ found_snippets = unique_snippets(accumulate(page, 1, <<>>, <<>>)[2])
    /\ p_pc = "cut"
    /\ records = <<AddrLow>>
    /\ p_index = 1
    /\ address = AddrLow
    /\ current_retry = 0
    /\ rate_limits = 0
    /\ requests = <<params(AddrLow)>>
    /\ last_response = "ok"
    /\ last_answer = [status |-> 200, quota |-> "5"]
    /\ last_sleep = 0
    /\ top_snippets = <<>>
    /\ prompt_snippets = <<>>
    /\ prompt_repos = <<>>
    /\ ai_metadata = "none"
    /\ stored = <<NoFields>>
    /\ stages = <<"fetch", "deduplicate">>
    /\ SanOff /\ CmpOff /\ SimOff /\ DedOff /\ CountOff
\* process_contracts when the search for the one record of a batch has just
\* returned a page that names several repositories
RepoInit ==
    /\ \E page \in RepoPages :
           /\ service = <<page>>
           /\ all_repos = accumulate(page, 1, <<>>, <<>>)[1]
           /\ all_snippets = accumulate(page, 1, <<>>, <<>>)[2]
           /\ repos_data = accumulate(page, 1, <<>>, <<>>)[1]
           /\ found_snippets = unique_snippets(accumulate(page, 1, <<>>, <<>>)[2])
    /\ p_pc = "cut"
    /\ records = <<AddrLow>>
    /\ p_index = 1
    /\ address = AddrLow
    /\ current_retry = 0
    /\ rate_limits = 0
    /\ requests = <<params(AddrLow)>>
    /\ last_response = "ok"
    /\ last_answer = [status |-> 200, quota |-> "5"]
    /\ last_sleep = 0
    /\ top_snippets = <<>>
    /\ prompt_snippets = <<>>
    /\ prompt_repos = <<>>
    /\ ai_metadata = "none"
    /\ stored = <<NoFields>>
    /\ stages = <<"fetch", "deduplicate">>
    /\ SanOff /\ CmpOff /\ SimOff /\ DedOff /\ CountOff
RepoNext == TopCut \/ Analyse \/ UpdateRecord \/ Finish
SpecRepos == RepoInit /\ [][RepoNext]_vars

CutNext == TopCut \/ Analyse \/ UpdateRecord \/ Finish
SpecCut == CutInit /\ [][CutNext]_vars

CountInit == CountStart /\ SanOff /\ CmpOff /\ SimOff /\ DedOff /\ POff
CountNext ==
    \/ CountStartRecord
    \/ CountRateLimited
    \/ CountFailure
    \/ CountSuccess
    \/ CountUpdate
    \/ CountFinish
SpecCount == CountInit /\ [][CountNext]_vars

Init == PStart /\ SanOff /\ CmpOff /\ SimOff /\ DedOff /\ CountOff
Next ==
    \/ StartRecord
    \/ RateLimited
    \/ TransientFailure
    \/ Success
    \/ MalformedResponse
    \/ TopCut
    \/ Analyse
    \/ UpdateRecord
    \/ Finish
Spec == Init /\ [][Next]_vars

\* the loop of search_contract goes on: requests.get returns or raises
\* within its timeout of 30 s (line 512), and the sleeps are finite
FetchStep == RateLimited \/ TransientFailure \/ Success \/ MalformedResponse
SpecFair == Spec /\ WF_vars(FetchStep)

(***************************************************************************)
(* C1: sanitizing twice equals sanitizing once, for every snippet and      *)
(* every target identifier.                                                *)
(***************************************************************************)
C1_Idempotent == san_pc = "twice" => san_out2 = san_out1

\* The snippet with every occurrence of an address-shaped token replaced, as
\* the contract words it: the occurrences are taken where they stand in the
\* input, also an occurrence that begins on the last digit of the one before.
RECURSIVE EveryOccurrenceReplaced(_, _, _)
EveryOccurrenceReplaced(text, i, target_address) ==
    LET occurrences == {j \in i..Len(text) : pattern(text, j)}
    IN IF occurrences = {} THEN SubSeq(text, i, Len(text))
       ELSE LET j == Min(occurrences)
                last == j + AddrLen - 1
                next == IF pattern(text, last) THEN last ELSE last + 1
            IN SubSeq(text, i, j - 1)
                   \o replacement(SubSeq(text, j, last), target_address)
                   \o EveryOccurrenceReplaced(text, next, target_address)

C3_Bounded == cmp_pc = "done" => Len(cmp_out) <= cmp_max_length

\* are_similar with the default threshold, as deduplicate_snippets calls it
Similar(a, b) == are_similar(a, b, DefaultThreshold)

(***************************************************************************)
(* C4: in the output of deduplicate_snippets no two snippets are judged    *)
(* similar by are_similar, in either argument order, and no two have the   *)
(* same normalized comparison key.                                         *)
(***************************************************************************)
C4_NoDuplicates ==
    ded_pc = "done" =>
        \A i, j \in 1..Len(ded_unique) :
            i # j =>
                /\ ~Similar(ded_unique[i], ded_unique[j])
                /\ comparison_key(ded_unique[i]) # comparison_key(ded_unique[j])

(***************************************************************************)
(* C5: are_similar is symmetric: are_similar(a, b, threshold) equals       *)
(* are_similar(b, a, threshold) for every pair and every threshold, also   *)
(* on the fuzzy path taken when both normalized strings have at least 50   *)
(* characters.                                                             *)
(***************************************************************************)
C5_Symmetric == sim_pc = "done" => sim_ab = sim_ba

(***************************************************************************)
(* C6: a rate-limited response (forbidden status, no remaining quota) is   *)
(* followed by a wait and the loop goes on without an attempt being        *)
(* spent, however many such responses came before; the request sent after  *)
(* it is the same as the rejected one (the same query, no page named).     *)
(***************************************************************************)
C6_RateLimitRepeats ==
    [][/\ (last_response' = "rate_limit" /\ requests' # requests) =>
              /\ current_retry' = current_retry
              /\ last_sleep' = sleep_time
              /\ p_pc' = "fetching"
       /\ (last_response = "rate_limit" /\ requests' # requests) =>
              /\ Len(requests') = Len(requests) + 1
              /\ requests'[Len(requests')] = requests[Len(requests)]]_vars

\* more requests than the attempt ceiling were sent, several of them
\* rate-limited, and the search still succeeded
C6_Witness ==
    /\ last_response = "ok"
    /\ rate_limits >= 2
    /\ Len(requests) > max_retries

(***************************************************************************)
(* C7: a failed request is retried with a wait that doubles (2, 4, 8       *)
(* seconds); at most 3 requests that are not rate-limited are sent; after  *)
(* the 3rd failure the search ends and returns what it has accumulated     *)
(* (nothing) as a normal result, and the record goes on to the cut.        *)
(***************************************************************************)
C7_BoundedRetries ==
    /\ Len(requests) - rate_limits <= max_retries
    /\ current_retry <= max_retries
    /\ last_response \in TransientKinds =>
           /\ last_sleep = backoff_base ^ current_retry
           /\ Len(requests) > 1 => requests[Len(requests)] = requests[Len(requests) - 1]
    /\ current_retry = max_retries =>
           /\ p_pc \in {"cut", "update", "next", "finished"}
           /\ repos_data = all_repos
           /\ found_snippets = all_snippets
           /\ all_snippets = <<>>

\* the third failure has happened and the record has gone on
C7_Witness ==
    /\ current_retry = max_retries
    /\ last_response \in TransientKinds
    /\ p_pc = "next"
    /\ p_index >= 1

\* the hits of the first page of a service: the non-empty fragments of its
\* items, in order
FirstPageHits(pages) ==
    IF pages = <<>> THEN <<>>
    ELSE Flatten([k \in 1..Len(pages[1]) |-> item_snippets(pages[1][k])])

(***************************************************************************)
(* C8 as stated: after a successful fetch the accumulator holds the hits   *)
(* of every page the service has for the identifier.                       *)
(***************************************************************************)
C8_EveryPage ==
    last_response = "ok" =>
        \A n \in 1..Len(service) : \A k \in 1..Len(service[n]) :
            \A m \in 1..Len(service[n][k].fragments) :
                service[n][k].fragments[m] # <<>> =>
                    \E x \in 1..Len(all_snippets) :
                        all_snippets[x] = service[n][k].fragments[m]

(***************************************************************************)
(* C8 amended: every request names the query and the page size and no      *)
(* page; the fetch ends at its first successful response, and the result   *)
(* holds the hits of that response, the first page, only.                  *)
(***************************************************************************)
C8_FirstPageOnly ==
    /\ \A k \in 1..Len(requests) : requests[k] = [q |-> address, per_page |-> per_page]
    /\ last_response = "ok" =>
           /\ Len(requests) = rate_limits + current_retry + 1
           /\ all_snippets = FirstPageHits(service)
           /\ {all_repos[k].repo_name : k \in 1..Len(all_repos)}
                  = IF service = <<>> THEN {}
                    ELSE {service[1][k].repo : k \in 1..Len(service[1])}

\* a successful fetch from a service with a second, different page
C8_Witness ==
    /\ last_response = "ok"
    /\ Len(service) >= 2
    /\ service[1] # service[2]
    /\ all_snippets # <<>>

(***************************************************************************)
(* C9 as stated: the stages run in the order fetch, sanitize, compress,    *)
(* deduplicate, top-N cut: when fragments were fetched, they are sanitized *)
(* and compressed before deduplication and before the cut.                 *)
(***************************************************************************)
C9_SanitizeBeforeDeduplicate ==
    \A j \in 1..Len(stages) :
        (stages[j] \in {"deduplicate", "cut"} /\ all_snippets # <<>>) =>
            /\ \E i \in 1..(j - 1) : stages[i] = "sanitize"
            /\ \E i \in 1..(j - 1) : stages[i] = "compress"

\* the order of the stages as the code runs them
StageRank(stage) ==
    CASE stage = "fetch" -> 1
      [] stage = "deduplicate" -> 2
      [] stage = "cut" -> 3
      [] stage \in {"sanitize", "compress"} -> 4
      [] stage = "update" -> 5

(***************************************************************************)
(* C9 amended: for each identifier the stages run in the order fetch,      *)
(* deduplicate, top-N cut, and then, for each snippet that was kept,       *)
(* sanitize followed by compress: deduplication and the cut work on the    *)
(* fragments as they were fetched.                                         *)
(***************************************************************************)
C9_DeduplicateBeforeSanitize ==
    /\ \A i, j \in 1..Len(stages) :
           i < j => StageRank(stages[i]) <= StageRank(stages[j])
    /\ \A j \in 1..Len(stages) :
           stages[j] = "compress" => j > 1 /\ stages[j - 1] = "sanitize"
    /\ \A k \in 1..Len(found_snippets) :
           \E x \in 1..Len(all_snippets) : found_snippets[k] = all_snippets[x]
    /\ \A k \in 1..Len(top_snippets) :
           \E x \in 1..Len(found_snippets) : top_snippets[k] = found_snippets[x]

\* a record whose fetched fragments went through every stage
C9_Witness ==
    /\ Len(stages) >= 6
    /\ stages[Len(stages)] = "update"
    /\ \E i \in 1..Len(stages) : stages[i] = "compress"
    /\ \E k \in 1..Len(top_snippets) : HasAddress(top_snippets[k])

(***************************************************************************)
(* C10: every snippet handed to the metadata analysis and every snippet    *)
(* written by the record update is sanitized (it holds no full             *)
(* address-shaped token) and is at most the compressor's maximum long.     *)
(***************************************************************************)
C10_DownstreamSanitized ==
    /\ \A k \in 1..Len(prompt_snippets) :
           /\ ~HasAddress(prompt_snippets[k])
           /\ Len(prompt_snippets[k]) <= ai_max_length
    /\ (stages # <<>> /\ stages[Len(stages)] = "update") =>
           \A k \in 1..Len(top_snippets) :
               /\ ~HasAddress(top_snippets[k])
               /\ Len(top_snippets[k]) <= ai_max_length
    /\ \A i \in 1..Len(stored) : ~HasAddress(stored[i].ai_snippets)

(***************************************************************************)
(* C11: a response of unexpected shape is treated as an empty page: the    *)
(* fetch raises no exception and returns no hits, and the batch loop is    *)
(* not stopped by it.                                                      *)
(***************************************************************************)
C11_MalformedIsEmptyPage ==
    /\ p_pc # "raised"
    /\ last_response \in MalformedShapes =>
           /\ repos_data = <<>>
           /\ found_snippets = <<>>

(***************************************************************************)
(* C12: the snippets deduplicate_snippets returns are in non-increasing    *)
(* score order: score(output[i]) >= score(output[j]) whenever i < j.       *)
(***************************************************************************)
C12_ScoreOrder ==
    ded_pc = "done" =>
        \A i, j \in 1..Len(ded_unique) :
            i < j => score_snippet(ded_unique[i]) >= score_snippet(ded_unique[j])

\* the input began with the lower-scored of two snippets that were both kept
C12_Witness ==
    /\ ded_pc = "done"
    /\ Len(ded_unique) >= 2
    /\ score_snippet(ded_unique[1]) > score_snippet(ded_unique[2])
    /\ ded_snippets[1] = ded_unique[2]

\* the lines of the compressor's input
CmpLines == splitlines(cmp_snippet)

\* the marker is first found on the 10th line, and lines 7 and 13 are the
\* boundary lines of the snippet
MarkerOnTenth ==
    /\ Len(CmpLines) >= 13
    /\ Contains(CmpLines[10], cmp_marker)
    /\ \A k \in 1..9 : ~Contains(CmpLines[k], cmp_marker)
    /\ {k \in 1..Len(CmpLines) : is_code_boundary(CmpLines[k])} = {7, 13}

(***************************************************************************)
(* C13: with the marker on the 10th line and boundary lines on lines 7     *)
(* and 13 only, the block compress_snippet returns (when it is not         *)
(* truncated) is made of lines between line 7 and line 13, however many    *)
(* lines the snippet has.                                                  *)
(***************************************************************************)
C13_WindowWithinBoundaries ==
    (cmp_pc = "done" /\ MarkerOnTenth /\ Len(cmp_snippet) <= cmp_max_length) =>
        \E first, last \in 7..13 :
            cmp_out = join(SubSeq(CmpLines, first, last))

(***************************************************************************)
(* C19: deduplicate_snippets of an empty list is the empty list and        *)
(* compress_snippet of an empty snippet is the empty string, for every     *)
(* min_length, marker and max_length.                                      *)
(***************************************************************************)
C19_EmptyInput ==
    /\ (cmp_pc = "done" /\ cmp_snippet = <<>>) => cmp_out = <<>>
    /\ (ded_pc = "done" /\ ded_snippets = <<>>) => ded_unique = <<>>

\* both functions have been applied to an empty input
C19_Witness ==
    /\ cmp_pc = "done"
    /\ cmp_snippet = <<>>
    /\ ded_pc = "done"
    /\ ded_snippets = <<>>

(***************************************************************************)
(* C20: when the snippet contains the marker token, the string             *)
(* compress_snippet returns contains it too, also when the block is cut    *)
(* to max_length.                                                          *)
(***************************************************************************)
C20_MarkerKept ==
    (cmp_pc = "done" /\ Contains(cmp_snippet, cmp_marker)) =>
        Contains(cmp_out, cmp_marker)

\* the items of the response a successful fetch merged
ReturnedItems == IF service = <<>> THEN <<>> ELSE service[1]

(***************************************************************************)
(* C14: after a fetch the repository accumulator holds exactly one entry   *)
(* for each repository named by the returned items, with the file path of  *)
(* the first item that names it.                                           *)
(***************************************************************************)
C14_OneEntryPerRepository ==
    last_response = "ok" =>
        /\ \A i, j \in 1..Len(all_repos) :
               i # j => all_repos[i].repo_name # all_repos[j].repo_name
        /\ {all_repos[i].repo_name : i \in 1..Len(all_repos)}
               = {ReturnedItems[k].repo : k \in 1..Len(ReturnedItems)} \ {<<>>}
        /\ \A i \in 1..Len(all_repos) :
               all_repos[i].file_path =
                   ReturnedItems[Min({k \in 1..Len(ReturnedItems) :
                       ReturnedItems[k].repo = all_repos[i].repo_name})].path
        /\ repos_data = all_repos

\* two of the returned items name the same repository, with different paths
C14_Witness ==
    /\ last_response = "ok"
    /\ \E k, l \in 1..Len(ReturnedItems) :
           /\ k < l
           /\ ReturnedItems[k].repo = ReturnedItems[l].repo
           /\ ReturnedItems[k].path # ReturnedItems[l].path

(***************************************************************************)
(* C15: when either normalized form is shorter than 50 characters,         *)
(* are_similar is true exactly when the two normalized forms are equal,    *)
(* whatever their ratio: a 40-character and a 45-character snippet that    *)
(* differ by punctuation only are judged distinct.                         *)
(***************************************************************************)
C15_ExactBelowFloor ==
    (/\ sim_pc = "done"
     /\ \/ Len(normalize(sim_a)) < FuzzyMinLen
        \/ Len(normalize(sim_b)) < FuzzyMinLen) =>
        /\ sim_ab = (normalize(sim_a) = normalize(sim_b))
        /\ sim_ba = (normalize(sim_b) = normalize(sim_a))

\* a 40- and a 45-character snippet whose ratio reaches the threshold are
\* judged distinct
C15_Witness ==
    /\ sim_pc = "done"
    /\ Len(sim_a) = 40
    /\ Len(sim_b) = 45
    /\ ~sim_ab
    /\ ratio_at_least(normalize(sim_a), normalize(sim_b), sim_threshold)

(***************************************************************************)
(* C16 as stated: two snippets that differ by trailing white space and     *)
(* one comment line have the same comparison key, and                      *)
(* deduplicate_snippets given both returns exactly one of them.            *)
(***************************************************************************)
C16_SameKey ==
    (ded_pc = "done" /\ ded_snippets \in CommentPairs) =>
        /\ comparison_key(ded_snippets[1]) = comparison_key(ded_snippets[2])
        /\ Len(ded_unique) = 1
        /\ ded_unique[1] \in {ded_snippets[1], ded_snippets[2]}

(***************************************************************************)
(* C16 amended: two such snippets have the same normalized form under      *)
(* are_similar (which removes comments; the comparison key keeps them and  *)
(* need not be the same), and deduplicate_snippets given both, each of     *)
(* them at least min_length long, returns exactly one of them: the one     *)
(* with the higher score, the first given when the scores are equal.       *)
(***************************************************************************)
C16_SameNormalizedForm ==
    (/\ ded_pc = "done"
     /\ ded_snippets \in CommentPairs
     /\ \A k \in 1..2 : Len(strip(ded_snippets[k])) >= ded_min_length) =>
        /\ normalize(ded_snippets[1]) = normalize(ded_snippets[2])
        /\ ded_unique =
               << IF score_snippet(ded_snippets[2]) > score_snippet(ded_snippets[1])
                  THEN ded_snippets[2]
                  ELSE ded_snippets[1] >>

\* the commented copy, given second, is the one that is kept, and the keys
\* of the two differ
C16_Witness ==
    /\ ded_pc = "done"
    /\ ded_snippets \in CommentPairs
    /\ ded_unique = <<ded_snippets[2]>>
    /\ Len(ded_snippets[2]) > Len(ded_snippets[1])
    /\ comparison_key(ded_snippets[1]) # comparison_key(ded_snippets[2])

\* the top-N cut has been made for the current record
CutMade == \E i \in 1..Len(stages) : stages[i] = "cut"

(***************************************************************************)
(* C17: the list kept after the top-N cut has at most N = 10 snippets,     *)
(* all of them deduplicated snippets, and no deduplicated snippet that     *)
(* was cut is longer than one that was kept.                               *)
(***************************************************************************)
C17_LongestKept ==
    CutMade =>
        LET found == {found_snippets[k] : k \in 1..Len(found_snippets)}
            kept == {top_snippets[k] : k \in 1..Len(top_snippets)}
        IN /\ Len(top_snippets) <= TOP_SNIPPETS_COUNT
           /\ Len(top_snippets) = Least(Len(found_snippets), TOP_SNIPPETS_COUNT)
           /\ Cardinality(kept) = Len(top_snippets)
           /\ kept \subseteq found
           /\ \A c \in found \ kept : \A k \in kept : Len(c) <= Len(k)

\* more than N snippets were found, and a longer one found after a shorter
\* one was kept in its place
C17_Witness ==
    /\ CutMade
    /\ Len(found_snippets) > TOP_SNIPPETS_COUNT
    /\ Len(top_snippets) = TOP_SNIPPETS_COUNT
    /\ \E i, j \in 1..Len(found_snippets) :
           /\ i < j
           /\ Len(found_snippets[i]) < Len(found_snippets[j])
           /\ \E k \in 1..Len(top_snippets) : top_snippets[k] = found_snippets[j]
           /\ \A k \in 1..Len(top_snippets) : top_snippets[k] # found_snippets[i]

(***************************************************************************)
(* C18: the result of sanitize_hex_addresses for a snippet and a target    *)
(* does not depend on the calls made before: after a call with another     *)
(* snippet and another target the same pair gives the same output, and     *)
(* no replacement of the earlier calls is used.                            *)
(***************************************************************************)
C18_NoLeakBetweenCalls ==
    san_pc = "again" =>
        san_again = sanitize_hex_addresses(san_text, san_target)

\* the call made beforehand replaced, for another target, the address that
\* is the target of the snippet
C18_Witness ==
    /\ san_pc = "again"
    /\ san_other_target # san_target
    /\ Contains(san_other_text, san_target)
    /\ Contains(san_text, san_target)
    /\ Contains(san_again, target_SC)

\* the lines whose accumulated length (each line and its line break) is
\* over max_length
CmpOver ==
    {idx \in 0..(Len(CmpLines) - 1) :
        total_length(CmpLines, idx) > cmp_max_length}

(***************************************************************************)
(* C21: when no line holds the marker and the accumulated length first     *)
(* exceeds max_length at line i, compress_snippet returns the lines before *)
(* the last boundary line among lines 0..i, a boundary on line 0 included, *)
(* or the lines before line i when none of them is a boundary, followed by *)
(* an ellipsis; when the length never exceeds max_length it returns the    *)
(* snippet unchanged.                                                      *)
(***************************************************************************)
C21_CutAtLastBoundarySeen ==
    (cmp_pc = "done" /\ ~Contains(cmp_snippet, cmp_marker)) =>
        IF CmpOver = {} THEN cmp_out = cmp_snippet
        ELSE LET i == Min(CmpOver)
                 seen == {b \in 0..i : is_code_boundary(CmpLines[b + 1])}
                 cut == IF seen = {} THEN i ELSE Max(seen)
             IN cmp_out = join(SubSeq(CmpLines, 1, cut)) \o EllipsisLine

(***************************************************************************)
(* C22: a response is handled as a rate limit (a wait of sleep_time and    *)
(* the same request again, no attempt consumed) only when its status is    *)
(* 403 and its remaining-quota header is present and zero; every other     *)
(* response with an error status, a 403 with quota left or with no quota   *)
(* header included, consumes one of the attempts.                          *)
(***************************************************************************)
C22_RateLimitOnlyOnZeroQuota ==
    [][(p_pc = "fetching" /\ requests' # requests
            /\ last_answer'.status >= 400) =>
          IF last_answer'.status = 403 /\ last_answer'.quota = "0"
          THEN current_retry' = current_retry /\ last_sleep' = sleep_time
          ELSE current_retry' = current_retry + 1]_vars

\* the last position of the comment that begins at i, a block comment being
\* closed by the next "*/" on whatever line it stands; 0 when none begins
\* there
whole_comment_end(text, i) ==
    IF StartsWithAt(text, i, BlockOpen)
           /\ \E j \in (i + 2)..(Len(text) - 1) : StartsWithAt(text, j, BlockClose)
    THEN Min({j \in (i + 2)..(Len(text) - 1) :
                 StartsWithAt(text, j, BlockClose)}) + 1
    ELSE IF StartsWithAt(text, i, LineComment)
    THEN LET feeds == {j \in (i + 2)..Len(text) : text[j] = LF}
         IN IF feeds = {} THEN Len(text) ELSE Min(feeds) - 1
    ELSE 0

\* the text from position i on with every comment taken out
RECURSIVE without_comments(_, _)
without_comments(text, i) ==
    LET found == {j \in i..Len(text) : whole_comment_end(text, j) > 0}
    IN IF found = {} THEN SubSeq(text, i, Len(text))
       ELSE LET j == Min(found)
            IN SubSeq(text, i, j - 1)
                   \o without_comments(text, whole_comment_end(text, j) + 1)

\* two snippets differ in comments, whitespace and letter case only
SameCode(a, b) ==
    collapse_spaces(lower(without_comments(a, 1)))
        = collapse_spaces(lower(without_comments(b, 1)))

(***************************************************************************)
(* C23: two snippets that differ only in comments (block comments on one   *)
(* line or over several lines, line comments), whitespace and letter case  *)
(* are judged similar by are_similar.                                      *)
(***************************************************************************)
C23_CommentsIgnored ==
    (sim_pc = "done" /\ SameCode(sim_a, sim_b)) => sim_ab

\* the returned items that are the first to name their repository
FirstOfRepository ==
    {k \in 1..Len(ReturnedItems) :
        \A l \in 1..(k - 1) : ReturnedItems[l].repo # ReturnedItems[k].repo}

\* the fragments of those items
FirstFragments ==
    UNION {{ReturnedItems[k].fragments[n] :
               n \in 1..Len(ReturnedItems[k].fragments)} :
           k \in FirstOfRepository}

(***************************************************************************)
(* C24: the snippets a fetch returns are fragments of the first item seen  *)
(* for each repository; the fragments of a later item whose repository is  *)
(* already recorded are not among them.                                    *)
(***************************************************************************)
C24_LaterFragmentsDiscarded ==
    last_response = "ok" =>
        \A n \in 1..Len(found_snippets) : found_snippets[n] \in FirstFragments

\* the declaration and marker flags of a snippet
Flags(s) == <<has_contract(s), Contains(s, target_SC)>>

(***************************************************************************)
(* C25: the score deduplicate_snippets gives a snippet is its length in    *)
(* thousandths, at most 1, plus 0.5 for a declaration and 0.3 for the      *)
(* marker: it lies between 0 and 1.8; of two snippets with the same flags  *)
(* the longer never scores lower; and two snippets of 1000 characters or   *)
(* more with the same flags score the same.  (Scores in thousandths.)      *)
(***************************************************************************)
C25_ScoreShape ==
    ded_pc = "done" =>
        Let([i \in 1..Len(ded_scored) |-> Flags(ded_scored[i][1])], LAMBDA flags :
            \A i, j \in 1..Len(ded_scored) :
                LET s == ded_scored[i][1]
                    t == ded_scored[j][1]
                    score_s == ded_scored[i][2]
                    score_t == ded_scored[j][2]
                IN /\ score_s >= 0
                   /\ score_s <= LengthCap + ContractBonus + TargetBonus
                   /\ score_s = Least(Len(s), LengthCap)
                                  + (IF flags[i][1] THEN ContractBonus ELSE 0)
                                  + (IF flags[i][2] THEN TargetBonus ELSE 0)
                   /\ (flags[i] = flags[j] /\ Len(s) >= Len(t)) =>
                          score_s >= score_t
                   /\ (flags[i] = flags[j] /\ Len(s) >= LengthCap
                          /\ Len(t) >= LengthCap) => score_s = score_t)

\* two snippets with a declaration and the marker, both beyond 1000
\* characters and of different lengths, have been scored
C25_Witness ==
    /\ ded_pc = "done"
    /\ Len(ded_scored) = 2
    /\ Flags(ded_scored[1][1]) = <<TRUE, TRUE>>
    /\ Len(ded_scored[1][1]) > LengthCap
    /\ Len(ded_scored[2][1]) > Len(ded_scored[1][1])
    /\ ded_scored[1][2] = LengthCap + ContractBonus + TargetBonus

\* the names of the repositories the search returned
RepoPaths == {repos_data[k].repo_name : k \in 1..Len(repos_data)}

\* the paths passed to the analysis
Selected == {prompt_repos[k] : k \in 1..Len(prompt_repos)}

(***************************************************************************)
(* C26: get_ai_metadata passes at most 3 repository paths to the           *)
(* analysis, none of them excluded, and no path that is left out and not   *)
(* excluded has a strictly higher repo_score than a path that is passed.   *)
(***************************************************************************)
C26_MostRelevantRepos ==
    (p_pc = "update" /\ top_snippets # <<>>) =>
        /\ Len(prompt_repos) <= prompt_repo_count
        /\ Selected \cap excluded_repos = {}
        /\ \A left \in (RepoPaths \ excluded_repos) \ Selected :
               \A chosen \in Selected : repo_score(left) <= repo_score(chosen)

\* the snippets deduplicate_snippets returned
Kept == {ded_unique[k] : k \in 1..Len(ded_unique)}

(***************************************************************************)
(* C27: every input snippet long enough after trimming that                *)
(* deduplicate_snippets leaves out has the comparison key of, or is judged *)
(* similar to, a returned snippet whose score is not lower than its own;   *)
(* and when some snippet is long enough, the first snippet returned has    *)
(* the highest score of them all.                                          *)
(***************************************************************************)
C27_OnlyDuplicatesDropped ==
    ded_pc = "done" =>
        /\ \A i \in 1..Len(ded_scored) :
               ded_scored[i][1] \notin Kept =>
                   \E u \in Kept :
                       /\ score_snippet(u) >= ded_scored[i][2]
                       /\ \/ comparison_key(u) = comparison_key(ded_scored[i][1])
                          \/ are_similar(ded_scored[i][1], u, DefaultThreshold)
        /\ ded_scored # <<>> =>
               /\ ded_unique # <<>>
               /\ \A i \in 1..Len(ded_scored) :
                      score_snippet(ded_unique[1]) >= ded_scored[i][2]

\* a snippet is returned next to one with a lower score, and a third one,
\* long enough, is left out
C27_Witness ==
    /\ ded_pc = "done"
    /\ Len(ded_unique) >= 2
    /\ score_snippet(ded_unique[1]) > score_snippet(ded_unique[2])
    /\ \E i \in 1..Len(ded_scored) : ded_scored[i][1] \notin Kept

(***************************************************************************)
(* C29: deduplicate_snippets is idempotent: called with the list it        *)
(* returned and the same min_length, it returns that list, the same        *)
(* snippets in the same order.                                             *)
(***************************************************************************)
C29_Idempotent == ded_pc = "again" => ded_again = ded_unique

\* the first call dropped a snippet and returned two with the same score,
\* and the second call has been made
C29_Witness ==
    /\ ded_pc = "again"
    /\ Len(ded_unique) < Len(ded_snippets)
    /\ \E i, j \in 1..Len(ded_unique) :
           i # j /\ score_snippet(ded_unique[i]) = score_snippet(ded_unique[j])

\* the rate-limit signal of the service: the forbidden status with a
\* remaining-quota indicator of zero
RateLimitSignal(answer) == answer.status = 403 /\ answer.quota = "0"

\* a response that is no rate-limit signal ends the fetch or consumes an
\* attempt
C28_Progress ==
    [][(p_pc = "fetching" /\ requests' # requests
            /\ ~RateLimitSignal(last_answer')) =>
          (p_pc' # "fetching" \/ current_retry' = current_retry + 1)]_vars

\* the fetch ends by returning, after a successful response or after the
\* last of the max_retries attempts
C28_Returns ==
    [][(p_pc = "fetching" /\ p_pc' # "fetching") =>
          /\ p_pc' = "cut"
          /\ last_answer'.status = 200 \/ current_retry' = max_retries]_vars

\* a fetch that has begun ends
C28_Ends == (p_pc = "fetching") ~> (p_pc # "fetching")

(***************************************************************************)
(* C28: the fetch for one identifier terminates whenever the service       *)
(* signals rate-limit only finitely many times: every response that is no  *)
(* rate-limit signal ends the fetch or consumes one of the 3 attempts, the *)
(* fetch returns after the first successful response or after the 3rd      *)
(* transient failure, and so a fetch that has begun ends.                  *)
(***************************************************************************)
C28_Terminates == C28_Progress /\ C28_Returns /\ C28_Ends

(***************************************************************************)
(* C30: in the counting batch a search that exhausts its 3 attempts        *)
(* returns (false, 0); whenever nothing was found, after a failed search   *)
(* as after a successful one without hits, the address is saved to the     *)
(* file of contracts without repositories and the record is updated with   *)
(* github_found = false and repo_count = 0; and in every outcome found is  *)
(* true exactly when count > 0.                                            *)
(***************************************************************************)
C30_FailedSearchAsNoHits ==
    /\ c_retry = count_max_retries =>
           c_outcome = [found |-> FALSE, count |-> 0]
    /\ c_outcome # NoOutcome => (c_outcome.found <=> c_outcome.count > 0)
    /\ (c_pc \in {"next", "finished"} /\ c_outcome # NoOutcome) =>
           /\ c_body = [github_found |-> c_outcome.found,
                        repo_count |-> c_outcome.count]
           /\ c_stored[c_index] \in {c_body, NoBody}
           /\ ~c_outcome.found =>
                  /\ c_body = [github_found |-> FALSE, repo_count |-> 0]
                  /\ c_no_github # <<>>
                  /\ c_no_github[Len(c_no_github)].contract_address
                         = c_records[c_index]

\* a record whose search exhausted its attempts has been stored
C30_Witness ==
    /\ c_pc = "next"
    /\ c_retry = count_max_retries
    /\ c_stored[c_index] = [github_found |-> FALSE, repo_count |-> 0]
    /\ c_no_github # <<>>

====
